---- MODULE Spec2Model ----
(***************************************************************************)
(* Model of the clepsy desktop source: the capture scheduler               *)
(* (data_generator.data_generator_worker), the dispatcher                  *)
(* (sender.request_sender_worker), the configuration record the GUI thread *)
(* rewrites (config.Config.user, utils.save_config, utils.reset_user_config)*)
(* and the worker thread that hosts both tasks (main.AsyncWorker).          *)
(*                                                                         *)
(* Time is the value of time.monotonic() in whole model units.  One unit   *)
(* is one active_window_poll_interval; the cooldowns are scaled down so    *)
(* that every rule of the scheduler is exercised within MaxClock units.    *)
(* The clock advances on its own (Tick): every await of a task, and every  *)
(* blocking call made from a task, can take time.                          *)
(***************************************************************************)
EXTENDS Integers, Sequences, FiniteSets, TLC

\* ---------------------------------------------------------------- bounds
\* Horizon of the monotonic clock when the scheduler runs alone (SpecSched).
MaxClock == 7
\* Horizon of the monotonic clock when every task runs (Spec).
MaxClockAll == 3
\* Number of GUI operations (pair, save settings, reset) in one run.
MaxUiOps == 2
\* Clock ticks explored after the long session of SpecLru.
MaxLruTicks == 5
\* Scaled timing settings of config.Config (seconds in the source).
active_window_poll_interval == 1
gate_sleep == 2
global_cd == 2
same_window_cd == 5
constant_window_cd == 6
afk_timeout == 2

\* ------------------------------------------------------ program constants
\* data_generator.py:221  `if len(window_hash_last_seen) > 1000`
LruCap == 1000
\* main.py:101  `AsyncQueue()`: asyncio.Queue(maxsize=0), and a maxsize of 0 or
\* less means the queue has no capacity limit
maxsize == 0

\* ---------------------------------------------------------------- values
\* WindowInfo, reduced to the fields the scheduler reads.
WinA == [app_name |-> "a", title |-> "b_c"]
WinB == [app_name |-> "a_b", title |-> "c"]
WinC == [app_name |-> "x", title |-> "y"]
Windows == {WinA, WinB, WinC}
\* Optional[WindowInfo] = None
NoWindow == [app_name |-> "<none>", title |-> "<none>"]

\* UserConfig() defaults (config.py:30-36).
DefaultUser == [clepsy_backend_url |-> "", device_token |-> "", active |-> TRUE]
BackendUrls == {"https://u1"}
DeviceTokens == {"t1"}
\* The settings file: absent, or holding a [user] section.
\* No helper call under way.
NoCall == [op |-> "none"]
NoFile == [clepsy_backend_url |-> "<nofile>", device_token |-> "<nofile>", active |-> FALSE]

VARIABLES
    clock,                  \* time.monotonic()
    user,                   \* config.user
    cfg_file,               \* the [user] section of CFG_FILE, or NoFile
    ui_ops,                 \* GUI operations performed so far
    worker,                 \* AsyncWorker thread: "running", "crashed", "terminated"
    shots_supported,        \* create_screenshotter returns (TRUE) or raises NotImplementedError
    \* --- data_generator_worker
    pc,                     \* position of the scheduler task
    wake,                   \* end of the current asyncio.sleep
    resume,                 \* position after the current sleep
    now,                    \* `now` of the current tick
    prev_hash,
    last_shot_ts,
    last_change_ts,
    window_hash_last_seen,  \* OrderedDict as a sequence of [hash, ts] in insertion order
    is_afk,
    cur_window,             \* the window handed to screenshot_and_publish
    scopes,                 \* entered `async with` scopes, outermost first
    \* --- publish_queue
    queue,                  \* asyncio.Queue: ids of the queued events, oldest first
    unfinished_tasks,       \* asyncio.Queue._unfinished_tasks
    \* --- request_sender_worker
    s_pc,                   \* position of the dispatcher task
    s_event,                \* id of the event in hand (0: none)
    s_headers,              \* bearer token put in the Authorization header
    s_url,                  \* base URL the request URLs were joined from
    app_state,              \* AppState.last_data_sent_timestamp / _status
    \* --- history (observation only; never read by the program's actions)
    log,                    \* every event put on the queue, in put order
    session,                \* number of paired sessions started
    check_ok,               \* the pairing as it really was at the latest pairing check
    obs_mark,               \* Len(log) at the latest tick that observed idle <= afk_timeout
    afk_obs,                \* ticks of this session that observed idle > afk_timeout since then
    released,               \* releases of the current session, in order
    swallowed,              \* where the latest tick's `except` caught an exception ("none": nowhere)
    handled,                \* ids whose handling the dispatcher completed, in order
    last_handled,           \* how the latest handling went
    \* --- a call of one of the synchronous helpers, with its arguments and result
    call

envVars == <<clock, shots_supported, call>>
cfgVars == <<user, cfg_file, ui_ops>>
schedVars == <<pc, wake, resume, now, prev_hash, last_shot_ts, last_change_ts,
               window_hash_last_seen, is_afk, cur_window, scopes>>
queueVars == <<queue, unfinished_tasks>>
senderVars == <<s_pc, s_event, s_headers, s_url, app_state>>
schedHist == <<log, session, check_ok, obs_mark, afk_obs, released>>
senderHist == <<handled, last_handled>>
vars == <<clock, shots_supported, user, cfg_file, ui_ops, worker,
          pc, wake, resume, now, prev_hash, last_shot_ts, last_change_ts,
          window_hash_last_seen, is_afk, cur_window, scopes,
          queue, unfinished_tasks,
          s_pc, s_event, s_headers, s_url, app_state,
          log, session, check_ok, obs_mark, afk_obs, released, swallowed,
          handled, last_handled, call>>

\* ------------------------------------------------------------ pure helpers
\* data_generator.window_to_hash
window_to_hash(window) == window.app_name \o "_" \o window.title

\* Mutant: the test forgets the active flag.
Paired_IgnoreActive(u) == u.clepsy_backend_url # "" /\ u.device_token # ""

\* Mutant: the test always passes.
Paired_Always(u) == TRUE

\* The pairing condition every task tests:
\* config.user.clepsy_backend_url and config.user.device_token and config.user.active
Paired(u) == u.clepsy_backend_url # "" /\ u.device_token # "" /\ u.active

\* window_hash_last_seen.get(h): the sequence holds at most one entry per hash.
HasKey(seen, h) == \E i \in 1..Len(seen) : seen[i].hash = h
SeenGet(seen, h) == seen[CHOOSE i \in 1..Len(seen) : seen[i].hash = h].ts

\* Mutant: a present key moves to the end when it is written (a true LRU).
SeenPut_MoveToEnd(seen, h, ts) ==
    Append(SelectSeq(seen, LAMBDA e : e.hash # h), [hash |-> h, ts |-> ts])

\* window_hash_last_seen[h] = ts: a present key keeps its position.
SeenPut(seen, h, ts) ==
    IF HasKey(seen, h)
    THEN [i \in 1..Len(seen) |-> IF seen[i].hash = h THEN [hash |-> h, ts |-> ts] ELSE seen[i]]
    ELSE Append(seen, [hash |-> h, ts |-> ts])

\* Mutant: the dict is never pruned.
Prune_Off(seen) == seen

\* popitem(last=False) once the dict holds more than 1000 entries.
Prune(seen) == IF Len(seen) > LruCap THEN Tail(seen) ELSE seen

\* ------------------------------------------------- the scheduler's rules
\* data_generator.py:142  `if idle_secs > config.afk_timeout.total_seconds()`
AfkDetected(idle_secs) == idle_secs > afk_timeout

\* Mutant: the latch is never set.
AfkLatch_NeverSet(idle_secs) == FALSE

\* data_generator.py:143-158  the value of is_afk after the AFK branch
AfkLatch(idle_secs) == AfkDetected(idle_secs)

\* Mutant: the AFK branch lacks its `continue`.
PastAfkCheck_NoContinue(idle_secs) == TRUE

\* data_generator.py:153-156  the AFK branch ends in `continue`: the tick goes on
\* to the capture rules only when the user is not AFK
PastAfkCheck(idle_secs) == ~AfkDetected(idle_secs)

\* Mutant: the global cooldown is never applied.
GlobalCooldownActive_Off(n, last_shot) == FALSE

\* data_generator.py:161  `if now - last_shot_ts < config.global_cd.total_seconds()`
GlobalCooldownActive(n, last_shot) == n - last_shot < global_cd

\* Mutant: the same-window cooldown is never applied.
SameWindowCooldownActive_Off(seen, h, n) == FALSE

\* Mutant: the same-window cooldown is measured against global_cd.
SameWindowCooldownActive_GlobalCd(seen, h, n) ==
    HasKey(seen, h) /\ n - SeenGet(seen, h) < global_cd

\* data_generator.py:191-195  `last_seen and now - last_seen < same_window_cd`
\* (a last_seen of None or of 0.0 is falsy)
SameWindowCooldownActive(seen, h, n) ==
    /\ HasKey(seen, h)
    /\ SeenGet(seen, h) # 0
    /\ n - SeenGet(seen, h) < same_window_cd

\* Mutant: Rule A never lets a shot through.
RuleA_Off(n, last_change) == FALSE

\* data_generator.py:202  Rule A: `elapsed_constant < global_cd` -> shoot
RuleA(n, last_change) == n - last_change < global_cd

\* Mutant: Rule B never holds a shot back.
RuleBSkip_Off(n, last_shot) == FALSE

\* data_generator.py:205-212  Rule B: `elapsed_since_shot < constant_window_cd` -> skip
RuleBSkip(n, last_shot) == n - last_shot < constant_window_cd

\* ScreenshotterBase.__aexit__ / IdleDetectorBase.__aexit__:
\*   try: self.stop()  finally: self.cleanup()
Aexit(scope, stop_raises) ==
    [scope |-> scope, stop |-> TRUE, cleanup |-> TRUE, raised |-> stop_raises]

\* Mutant: the scopes are left outermost first.
ReleaseOrder_OuterFirst(held) == held

\* Nested `async with` blocks exit innermost first.
ReleaseOrder(held) == [i \in 1..Len(held) |-> held[Len(held) + 1 - i]]

\* Leaving every entered scope; r[i] says whether the i-th stop() raises.
Unwind(held, r) == [i \in 1..Len(held) |-> Aexit(ReleaseOrder(held)[i], r[i])]
AnyRaised(rel) == \E i \in 1..Len(rel) : rel[i].raised

\* The pairing as it is, whatever the tasks' own test says (history only).
ReallyPaired(u) == u.clepsy_backend_url # "" /\ u.device_token # "" /\ u.active

\* ------------------------------------------------------------------ queue
\* asyncio.Queue.full(): never full without a positive maxsize.
QueueFull(q) == maxsize > 0 /\ Len(q) >= maxsize

\* Mutant: a put goes to the front of the queue.
QueuePut_Front(q, id) == <<id>> \o q

\* publish_queue.put(event) on the unbounded asyncio.Queue of main.py:101.
QueuePut(q, id) == Append(q, id)
\* queue.get(): the oldest item.
QueueFront(q) == Head(q)
QueueRest(q) == Tail(q)

\* The record kept of a put (history).
Event(kind, window, tick, boot) ==
    [id |-> Len(log) + 1, kind |-> kind,
     hash |-> IF kind = "DesktopCheck" THEN window_to_hash(window) ELSE "",
     tick |-> tick, at |-> clock, session |-> session, boot |-> boot,
     paired |-> ReallyPaired(user), checked |-> check_ok,
     backend |-> user.clepsy_backend_url, token |-> user.device_token]

Put(e) ==
    /\ queue' = QueuePut(queue, e.id)
    /\ unfinished_tasks' = unfinished_tasks + 1
    /\ log' = Append(log, e)

\* The event loop of the worker thread runs one coroutine at a time: while a
\* synchronous call made by a coroutine is in flight, no coroutine takes a step.
LoopFree == call.op # "blocking"

\* ------------------------------------------------------------------- Init
Init ==
    /\ clock = 1
    /\ shots_supported \in BOOLEAN
    /\ call = NoCall
    /\ \/ user = DefaultUser /\ cfg_file = NoFile
       \/ \E u \in BackendUrls, t \in DeviceTokens, a \in BOOLEAN :
            /\ user = [clepsy_backend_url |-> u, device_token |-> t, active |-> a]
            /\ cfg_file = user
    /\ ui_ops = 0
    /\ worker = "running"
    /\ pc = "gate" /\ wake = 0 /\ resume = "gate" /\ now = 0
    /\ prev_hash = "" /\ last_shot_ts = 0 /\ last_change_ts = 0
    /\ window_hash_last_seen = <<>> /\ is_afk = FALSE
    /\ cur_window = NoWindow /\ scopes = <<>>
    /\ queue = <<>> /\ unfinished_tasks = 0
    /\ s_pc = "get" /\ s_event = 0 /\ s_headers = "" /\ s_url = ""
    /\ app_state = [last_data_sent_timestamp |-> 0, last_data_sent_status |-> "None"]
    /\ log = <<>> /\ session = 0 /\ check_ok = FALSE /\ obs_mark = 0 /\ afk_obs = 0
    /\ released = <<>> /\ swallowed = "none"
    /\ handled = <<>>
    /\ last_handled = [id |-> 0, result |-> "none", posts |-> 0, logged |-> FALSE,
                       health_written |-> FALSE]

\* ------------------------------------------------------------ environment
\* Time passes, up to the horizon h, while the worker thread lives.  The
\* scheduler runs from the end of an await to its next await without
\* suspending, so the clock stands still while it is between two awaits.
Tick(h) ==
    /\ worker = "running"
    /\ pc \in {"sleep", "boot", "idle", "capture"}
    /\ clock < h
    /\ clock' = clock + 1
    /\ UNCHANGED <<shots_supported, call, cfgVars, worker, schedVars, queueVars,
                   senderVars, schedHist, swallowed, senderHist>>

\* -------------------------------------------------------------------- GUI
\* utils.save_config: write the [user] section, then config.load_user_config().
\* A failed write (OSError) is logged and leaves the record as it was.
save_config(u, write_ok) ==
    /\ cfg_file' = IF write_ok THEN u ELSE cfg_file
    /\ user' = IF write_ok THEN u ELSE user

\* gui.PairingPage.attempt_pair: a successful pairing stores URL, token, active=True.
AttemptPair ==
    /\ worker = "running" /\ ui_ops < MaxUiOps
    /\ \E u \in BackendUrls, t \in DeviceTokens, write_ok \in BOOLEAN :
         save_config([clepsy_backend_url |-> u, device_token |-> t, active |-> TRUE], write_ok)
    /\ ui_ops' = ui_ops + 1
    /\ UNCHANGED <<envVars, worker, schedVars, queueVars, senderVars, schedHist, swallowed, senderHist>>

\* A second backend the device can be paired with.
OtherBackend == [clepsy_backend_url |-> "https://u2", device_token |-> "t2"]

\* gui.PairingPage.attempt_pair against the other backend.
AttemptPairOther ==
    /\ worker = "running" /\ ui_ops < MaxUiOps
    /\ \E write_ok \in BOOLEAN :
         save_config([clepsy_backend_url |-> OtherBackend.clepsy_backend_url,
                      device_token |-> OtherBackend.device_token, active |-> TRUE], write_ok)
    /\ ui_ops' = ui_ops + 1
    /\ UNCHANGED <<envVars, worker, schedVars, queueVars, senderVars, schedHist, swallowed, senderHist>>

\* gui.SettingsTab.save_settings: needs a valid URL and a stored token; keeps the token.
SaveSettings ==
    /\ worker = "running" /\ ui_ops < MaxUiOps
    /\ user.device_token # ""
    /\ \E u \in BackendUrls, a \in BOOLEAN, write_ok \in BOOLEAN :
         save_config([clepsy_backend_url |-> u, device_token |-> user.device_token,
                      active |-> a], write_ok)
    /\ ui_ops' = ui_ops + 1
    /\ UNCHANGED <<envVars, worker, schedVars, queueVars, senderVars, schedHist, swallowed, senderHist>>

\* utils.reset_user_config: the file (or its [user] section) is removed, then
\* config.load_user_config() runs; it assigns config.user only when the file
\* has a [user] section (config.py:108), so the record in memory stays.
ResetPairing ==
    /\ worker = "running" /\ ui_ops < MaxUiOps
    /\ cfg_file' = NoFile
    /\ user' = IF cfg_file' # NoFile THEN cfg_file' ELSE user
    /\ ui_ops' = ui_ops + 1
    /\ UNCHANGED <<envVars, worker, schedVars, queueVars, senderVars, schedHist, swallowed, senderHist>>

\* main.ClepsyTrayApp.quit_app: QThread.terminate() kills the worker thread
\* where it stands; no task is cancelled and no coroutine runs again.
QuitApp ==
    /\ worker = "running"
    /\ worker' = "terminated"
    /\ UNCHANGED <<envVars, cfgVars, schedVars, queueVars, senderVars, schedHist, swallowed, senderHist>>

\* -------------------------------------------------- data_generator_worker
\* What get_active_window_if_relevant can come back with: a relevant window,
\* None, or an exception of the provider or of the relevance filter.
LookupError == [app_name |-> "<raise>", title |-> "<raise>"]
LookupOutcomes == Windows \cup {NoWindow, LookupError}

\* What idle.get_idle_seconds() can return, around the AFK threshold.
IdleReadings == {afk_timeout, afk_timeout + 1}

\* await asyncio.sleep(d), then go on at `target`.
Sleep(d, target) ==
    /\ pc' = "sleep"
    /\ wake' = clock + d
    /\ resume' = target

\* An exception leaves data_generator_worker: asyncio.gather re-raises it in
\* main_async, run_until_complete returns and AsyncWorker.run closes the loop.
Crash ==
    /\ pc' = "dead"
    /\ worker' = "crashed"

\* Mutant: the except clause misses the errors of the window lookup.
LoopCatches_NotLookup(where) == where # "lookup"

\* data_generator.py:223  `except Exception` catches whatever the iteration
\* body raises, wherever it does.
LoopCatches(where) == TRUE

\* data_generator.py:223-228  an exception of the iteration body.  Caught, it
\* is logged and the `finally` sleeps one poll interval; uncaught, it would
\* leave both scopes and the worker.
Raised(where) ==
    IF LoopCatches(where)
    THEN /\ Sleep(active_window_poll_interval, "loop")
         /\ swallowed' = where
         /\ UNCHANGED <<worker, scopes, released>>
    ELSE /\ Crash
         /\ \E r \in [1..Len(scopes) -> BOOLEAN] : released' = released \o Unwind(scopes, r)
         /\ scopes' = <<>>
         /\ swallowed' = "none"
         /\ UNCHANGED <<wake, resume>>

\* data_generator.py:64-72  the pairing gate.
SchedGate ==
    /\ worker = "running" /\ pc = "gate" /\ LoopFree
    /\ check_ok' = ReallyPaired(user)
    /\ IF Paired(user)
       THEN pc' = "first" /\ UNCHANGED <<wake, resume>>
       ELSE Sleep(gate_sleep, "gate")
    /\ UNCHANGED <<envVars, cfgVars, worker, now, prev_hash, last_shot_ts, last_change_ts,
                   window_hash_last_seen, is_afk, cur_window, scopes, queueVars,
                   senderVars, log, session, obs_mark, afk_obs, released, swallowed, senderHist>>

\* Mutant: create_screenshotter always returns a screenshotter.
CreateRaises_Never(supported) == FALSE

\* screenshotter.py:236-269  create_screenshotter raises NotImplementedError
\* where unattended screenshots are not supported.
CreateRaises(supported) == ~supported

\* data_generator.py:108  warnings "Screenshots not supported ..." logged so
\* far: one per cycle that got as far as create_screenshotter.
UnsupportedReports == IF CreateRaises(shots_supported) THEN session ELSE 0

\* Mutant: a new session keeps the AFK latch and the dict of the previous one.
StartSession_KeepState(w) ==
    /\ prev_hash' = window_to_hash(w)
    /\ last_shot_ts' = clock
    /\ last_change_ts' = clock
    /\ window_hash_last_seen' =
         SeenPut(window_hash_last_seen, window_to_hash(w), clock)
    /\ is_afk' = is_afk
    /\ session' = session + 1
    /\ afk_obs' = 0
    /\ released' = <<>>

\* data_generator.py:97-102  the state of a new paired session.
StartSession(w) ==
    /\ prev_hash' = window_to_hash(w)
    /\ last_shot_ts' = clock
    /\ last_change_ts' = clock
    /\ window_hash_last_seen' = <<[hash |-> window_to_hash(w), ts |-> clock]>>
    /\ is_afk' = FALSE
    /\ session' = session + 1
    /\ afk_obs' = 0
    /\ released' = <<>>

\* data_generator.py:74-120  find the first window, set up the session, create
\* the screenshotter and enter its scope.
SchedFindFirst ==
    /\ worker = "running" /\ pc = "first" /\ LoopFree
    /\ check_ok' = ReallyPaired(user)
    /\ \/ \* pairing lost: break, `first is None`, continue
          /\ ~Paired(user)
          /\ pc' = "gate"
          /\ UNCHANGED <<worker, wake, resume, prev_hash, last_shot_ts, last_change_ts,
                         window_hash_last_seen, is_afk, cur_window, scopes, session, afk_obs, released>>
       \/ \* no relevant window yet
          /\ Paired(user)
          /\ Sleep(active_window_poll_interval, "first")
          /\ UNCHANGED <<worker, prev_hash, last_shot_ts, last_change_ts,
                         window_hash_last_seen, is_afk, cur_window, scopes, session, afk_obs, released>>
       \/ \* the lookup raises outside any try
          /\ Paired(user)
          /\ Crash
          /\ UNCHANGED <<wake, resume, prev_hash, last_shot_ts, last_change_ts,
                         window_hash_last_seen, is_afk, cur_window, scopes, session, afk_obs, released>>
       \/ \* a window, but create_screenshotter raises NotImplementedError
          /\ Paired(user) /\ CreateRaises(shots_supported)
          /\ \E w \in Windows : StartSession(w)
          /\ Sleep(active_window_poll_interval, "gate")
          /\ UNCHANGED <<worker, cur_window, scopes>>
       \/ \* a window and a screenshotter; __aenter__ calls start()
          /\ Paired(user) /\ ~CreateRaises(shots_supported)
          /\ \E w \in Windows :
               /\ StartSession(w)
               /\ \/ /\ pc' = "boot" /\ cur_window' = w
                     /\ scopes' = <<"screenshotter">>
                     /\ UNCHANGED worker
                  \/ /\ Crash
                     /\ UNCHANGED <<cur_window, scopes>>
          /\ UNCHANGED <<wake, resume>>
    /\ UNCHANGED <<envVars, cfgVars, now, queueVars, senderVars, log, obs_mark, swallowed,
                   senderHist>>

\* data_generator.py:122-128  the initial shot (a failure is logged), then the
\* idle detector's scope is entered.
SchedBoot ==
    /\ worker = "running" /\ pc = "boot" /\ LoopFree
    /\ \/ Put(Event("DesktopCheck", cur_window, last_shot_ts, TRUE))
       \/ UNCHANGED <<queueVars, log>>
    /\ \/ /\ scopes' = Append(scopes, "idle")
          /\ pc' = "loop"
          /\ UNCHANGED <<worker, released>>
       \/ \* idle.__aenter__ raises: the screenshotter's scope unwinds
          /\ \E r \in [1..Len(scopes) -> BOOLEAN] : released' = released \o Unwind(scopes, r)
          /\ scopes' = <<>>
          /\ Crash
    /\ cur_window' = NoWindow
    /\ UNCHANGED <<envVars, cfgVars, wake, resume, now, prev_hash, last_shot_ts,
                   last_change_ts, window_hash_last_seen, is_afk, senderVars,
                   session, check_ok, obs_mark, afk_obs, swallowed, senderHist>>

\* data_generator.py:129-138  top of the inner loop.
SchedLoopTop ==
    /\ worker = "running" /\ pc = "loop" /\ LoopFree
    /\ check_ok' = ReallyPaired(user)
    /\ IF ~Paired(user)
       THEN \* break: both scopes are left
            /\ \E r \in [1..Len(scopes) -> BOOLEAN] :
                 /\ released' = released \o Unwind(scopes, r)
                 /\ IF AnyRaised(Unwind(scopes, r))
                    THEN Crash
                    ELSE pc' = "gate" /\ UNCHANGED worker
            /\ scopes' = <<>>
            /\ swallowed' = "none"
            /\ UNCHANGED now
       ELSE /\ now' = clock
            /\ pc' = "idle"
            /\ UNCHANGED <<worker, scopes, released, swallowed>>
    /\ UNCHANGED <<envVars, cfgVars, wake, resume, prev_hash, last_shot_ts, last_change_ts,
                   window_hash_last_seen, is_afk, cur_window, queueVars, senderVars,
                   log, session, obs_mark, afk_obs, senderHist>>

\* data_generator.py:141-212  what the tick does once idle_secs is known and,
\* past the global cooldown, the foreground window `r` was looked up.
Decision(idle_secs, r) ==
    IF ~PastAfkCheck(idle_secs) THEN "skip"
    ELSE IF GlobalCooldownActive(now, last_shot_ts) THEN "skip"
    ELSE IF r = LookupError THEN "error"
    ELSE IF r = NoWindow THEN "skip"
    ELSE IF SameWindowCooldownActive(window_hash_last_seen, window_to_hash(r), now) THEN "skip"
    ELSE IF RuleA(now, IF window_to_hash(r) # prev_hash THEN now ELSE last_change_ts) THEN "shoot"
    ELSE IF RuleBSkip(now, last_shot_ts) THEN "skip"
    ELSE "shoot"

\* The tick reached `cur_hash = window_to_hash(cur_window)` (line 180).
Looked(idle_secs, r) ==
    /\ PastAfkCheck(idle_secs)
    /\ ~GlobalCooldownActive(now, last_shot_ts)
    /\ r \in Windows

\* data_generator.py:139-212  idle.get_idle_seconds() returned or raised; the
\* AFK rule, the cooldowns and the window lookup follow without an await.
\* A `continue` inside the try sleeps one poll interval and the `finally`
\* sleeps another.
SchedIdle ==
    /\ worker = "running" /\ pc = "idle" /\ LoopFree
    /\ \/ \* get_idle_seconds raises: except, finally
          /\ Raised("idle")
          /\ now' = 0
          /\ UNCHANGED <<prev_hash, last_change_ts, is_afk, cur_window, queueVars, log,
                         obs_mark, afk_obs>>
       \/ \E idle_secs \in IdleReadings, r \in LookupOutcomes :
            LET d == Decision(idle_secs, r)
                h == window_to_hash(r)
            IN  /\ is_afk' = AfkLatch(idle_secs)
                /\ obs_mark' = IF idle_secs > afk_timeout THEN obs_mark ELSE Len(log)
                /\ afk_obs' = IF idle_secs > afk_timeout THEN afk_obs + 1 ELSE 0
                /\ IF AfkDetected(idle_secs) /\ ~is_afk
                   THEN Put(Event("AfkStart", NoWindow, now, FALSE))
                   ELSE UNCHANGED <<queueVars, log>>
                /\ prev_hash' = IF Looked(idle_secs, r) THEN h ELSE prev_hash
                /\ last_change_ts' = IF Looked(idle_secs, r) /\ h # prev_hash
                                     THEN now ELSE last_change_ts
                /\ CASE d = "shoot" ->
                          /\ pc' = "capture" /\ cur_window' = r
                          /\ swallowed' = "none"
                          /\ UNCHANGED <<now, wake, resume, worker, scopes, released>>
                     [] d = "error" ->
                          /\ Raised("lookup")
                          /\ now' = 0 /\ UNCHANGED cur_window
                     [] OTHER ->
                          /\ Sleep(2 * active_window_poll_interval, "loop")
                          /\ now' = 0 /\ UNCHANGED <<cur_window, worker, scopes, released>>
                          /\ swallowed' = "none"
    /\ UNCHANGED <<envVars, cfgVars, last_shot_ts, window_hash_last_seen,
                   senderVars, session, check_ok, senderHist>>

\* data_generator.py:214-228  screenshot_and_publish returned or raised.
SchedCapture ==
    /\ worker = "running" /\ pc = "capture" /\ LoopFree
    /\ \/ /\ Put(Event("DesktopCheck", cur_window, now, FALSE))
          /\ last_shot_ts' = now
          /\ window_hash_last_seen' =
                Prune(SeenPut(window_hash_last_seen, window_to_hash(cur_window), now))
          /\ Sleep(active_window_poll_interval, "loop")
          /\ swallowed' = "none"
          /\ UNCHANGED <<worker, scopes, released>>
       \/ \* the capture raises: except, finally
          /\ Raised("capture")
          /\ UNCHANGED <<queueVars, log, last_shot_ts, window_hash_last_seen>>
    /\ now' = 0 /\ cur_window' = NoWindow
    /\ UNCHANGED <<envVars, cfgVars, prev_hash, last_change_ts, is_afk,
                   senderVars, session, check_ok, obs_mark, afk_obs, senderHist>>

\* asyncio.sleep is over.
SchedWake ==
    /\ worker = "running" /\ pc = "sleep" /\ LoopFree
    /\ clock >= wake
    /\ pc' = resume /\ wake' = 0 /\ resume' = "gate"
    /\ UNCHANGED <<envVars, cfgVars, worker, now, prev_hash, last_shot_ts, last_change_ts,
                   window_hash_last_seen, is_afk, cur_window, scopes, queueVars,
                   senderVars, schedHist, swallowed, senderHist>>

\* -------------------------------------------------- request_sender_worker
\* Mutant: task_done is called twice.
TaskDone_Twice(n) == n - 2

\* queue.task_done()
TaskDone(n) == n - 1

\* sender.py:56-65  take the oldest event; without a valid pairing it is
\* discarded and marked done.
SenderGet ==
    /\ worker = "running" /\ s_pc = "get" /\ LoopFree
    /\ queue # <<>>
    /\ queue' = QueueRest(queue)
    /\ IF ~Paired(user)
       THEN /\ unfinished_tasks' = TaskDone(unfinished_tasks)
            /\ handled' = Append(handled, QueueFront(queue))
            /\ last_handled' = [id |-> QueueFront(queue), result |-> "discarded",
                                posts |-> 0, logged |-> FALSE, health_written |-> FALSE]
            /\ UNCHANGED <<s_pc, s_event>>
       ELSE /\ s_event' = QueueFront(queue)
            /\ s_pc' = "build"
            /\ UNCHANGED <<unfinished_tasks, handled, last_handled>>
    /\ UNCHANGED <<envVars, cfgVars, worker, schedVars, s_headers, s_url, app_state, schedHist, swallowed>>

\* sender.py:67-69  the Authorization header, from config.user as it is now.
SenderBuild ==
    /\ worker = "running" /\ s_pc = "build" /\ LoopFree
    /\ s_headers' = user.device_token
    /\ s_pc' = "urls"
    /\ UNCHANGED <<envVars, cfgVars, worker, schedVars, queueVars, s_event, s_url, app_state,
                   schedHist, swallowed, senderHist>>

\* sender.py:70-77  the request URLs, from config.user as it is now: the GUI
\* thread runs concurrently with the worker thread and can have replaced
\* config.user since the header was built.
SenderUrls ==
    /\ worker = "running" /\ s_pc = "urls" /\ LoopFree
    /\ s_url' = user.clepsy_backend_url
    /\ s_pc' = "send"
    /\ UNCHANGED <<envVars, cfgVars, worker, schedVars, queueVars, s_event, s_headers,
                   app_state, schedHist, swallowed, senderHist>>

\* How a send can end: a 2xx response, raise_for_status raising HTTPStatusError,
\* the POST raising, or (DesktopCheck) the PNG encoding raising before the POST.
SendOutcomes(kind) ==
    {"2xx", "http_error", "request_error"} \cup
    (IF kind = "DesktopCheck" THEN {"encode_error"} ELSE {})

\* Mutant: every attempt is recorded as a success.
HealthAfter_AlwaysSuccess(outcome) ==
    [last_data_sent_timestamp |-> clock, last_data_sent_status |-> "Success"]

\* sender.py:95-107  AppState after the attempt.
HealthAfter(outcome) ==
    [last_data_sent_timestamp |-> clock,
     last_data_sent_status |-> IF outcome = "2xx" THEN "Success" ELSE "Fail"]

\* sender.py:79-109  one send attempt, the health update and task_done.
SenderSend ==
    /\ worker = "running" /\ s_pc = "send" /\ LoopFree
    /\ \E outcome \in SendOutcomes(log[s_event].kind) :
         /\ app_state' = HealthAfter(outcome)
         /\ last_handled' = [id |-> s_event,
                             result |-> IF outcome = "2xx" THEN "delivered" ELSE "failed",
                             posts |-> IF outcome = "encode_error" THEN 0 ELSE 1,
                             logged |-> outcome # "2xx",
                             health_written |-> TRUE]
    /\ unfinished_tasks' = TaskDone(unfinished_tasks)
    /\ handled' = Append(handled, s_event)
    /\ s_event' = 0 /\ s_headers' = "" /\ s_url' = "" /\ s_pc' = "get"
    /\ UNCHANGED <<envVars, cfgVars, worker, schedVars, queue, schedHist, swallowed>>

\* ------------------------------------------------------------------- Next
\* The scheduler with its environment: the clock, the GUI thread, the queue it
\* puts on.  The scheduler reads nothing the dispatcher writes (the queue is
\* unbounded, so put never waits), which is why its rules can be explored
\* over a longer horizon without the dispatcher's steps.
NextSched ==
    \/ Tick(MaxClock)
    \/ AttemptPair
    \/ SaveSettings
    \/ ResetPairing
    \/ QuitApp
    \/ SchedGate
    \/ SchedFindFirst
    \/ SchedBoot
    \/ SchedLoopTop
    \/ SchedIdle
    \/ SchedCapture
    \/ SchedWake

SpecSched == Init /\ [][NextSched]_vars

\* Every task of the worker thread, with the GUI thread and the clock.
Next ==
    \/ Tick(MaxClockAll)
    \/ AttemptPair
    \/ SaveSettings
    \/ ResetPairing
    \/ QuitApp
    \/ SchedGate
    \/ SchedFindFirst
    \/ SchedBoot
    \/ SchedLoopTop
    \/ SchedIdle
    \/ SchedCapture
    \/ SchedWake
    \/ SenderGet
    \/ SenderBuild
    \/ SenderUrls
    \/ SenderSend

Spec == Init /\ [][Next]_vars

\* All tasks again, with a GUI that pairs the device with one backend or with
\* another one; enough to see which record each read of the dispatcher hits.
NextRace ==
    \/ Tick(MaxClockAll)
    \/ AttemptPair
    \/ AttemptPairOther
    \/ QuitApp
    \/ SchedGate
    \/ SchedFindFirst
    \/ SchedBoot
    \/ SchedLoopTop
    \/ SchedIdle
    \/ SchedCapture
    \/ SchedWake
    \/ SenderGet
    \/ SenderBuild
    \/ SenderUrls
    \/ SenderSend

SpecRace == Init /\ [][NextRace]_vars

\* ------------------------------------------------------- a long session
\* The dict of a session that has shot n different windows, one every
\* global_cd from the session start at clock 1.
LruTime(i) == 1 + global_cd * (i - 1)
LruHash(i) == IF i = 1 THEN window_to_hash(WinA) ELSE "w" \o ToString(i)
LruSeen(n) == [i \in 1..n |-> [hash |-> LruHash(i), ts |-> LruTime(i)]]

\* The scheduler asleep after the n-th shot of such a session (the state
\* SchedCapture leaves), with every event already sent; the history starts
\* here.
InitLru ==
    /\ \E n \in {LruCap - 1, LruCap} :
         /\ clock = LruTime(n)
         /\ window_hash_last_seen = LruSeen(n)
         /\ prev_hash = LruHash(n)
         /\ last_shot_ts = LruTime(n)
         /\ last_change_ts = LruTime(n)
         /\ wake = LruTime(n) + active_window_poll_interval
    /\ shots_supported = TRUE
    /\ call = NoCall
    /\ user = [clepsy_backend_url |-> "https://u1", device_token |-> "t1", active |-> TRUE]
    /\ cfg_file = user
    /\ ui_ops = 0
    /\ worker = "running"
    /\ pc = "sleep" /\ resume = "loop" /\ now = 0
    /\ is_afk = FALSE
    /\ cur_window = NoWindow /\ scopes = <<"screenshotter", "idle">>
    /\ queue = <<>> /\ unfinished_tasks = 0
    /\ s_pc = "get" /\ s_event = 0 /\ s_headers = "" /\ s_url = ""
    /\ app_state = [last_data_sent_timestamp |-> 0, last_data_sent_status |-> "None"]
    /\ log = <<>> /\ session = 1 /\ check_ok = TRUE /\ obs_mark = 0 /\ afk_obs = 0
    /\ released = <<>> /\ swallowed = "none"
    /\ handled = <<>>
    /\ last_handled = [id |-> 0, result |-> "none", posts |-> 0, logged |-> FALSE,
                       health_written |-> FALSE]

\* The inner loop of the scheduler going on from there.
NextLru ==
    \/ Tick(LruTime(LruCap) + MaxLruTicks)
    \/ SchedLoopTop
    \/ SchedIdle
    \/ SchedCapture
    \/ SchedWake

SpecLru == InitLru /\ [][NextLru]_vars

\* ------------------------------------------------ get_window_info helpers
\* The helpers below are synchronous functions of their arguments.  Each is
\* computed as the code computes it; a call is recorded in `call` together
\* with its arguments and its outcome (a return value or the exception raised).
Max2(a, b) == IF a >= b THEN a ELSE b
Min2(a, b) == IF a <= b THEN a ELSE b
Box(l, t, w, h) == [left |-> l, top |-> t, width |-> w, height |-> h]

\* get_window_info.intersection: the area two boxes share, 0 when disjoint.
intersection(a, b) ==
    LET x1 == Max2(a.left, b.left)
        y1 == Max2(a.top, b.top)
        x2 == Min2(a.left + a.width, b.left + b.width)
        y2 == Min2(a.top + a.height, b.top + b.height)
    IN  Max2(0, x2 - x1) * Max2(0, y2 - y1)

MIN_SIDE_PX == 200
\* ASPECT_MIN, ASPECT_MAX = 0.25, 4.0, i.e. 1/ASPECT_MAX and ASPECT_MAX.
ASPECT_MAX == 4
\* AREA_RATIO_MIN = 0.10, i.e. 1/AREA_RATIO_INV.
AREA_RATIO_INV == 10

\* `not (ASPECT_MIN <= width / height <= ASPECT_MAX)`.  The quotient is a
\* correctly rounded double and 0.25 and 4.0 are doubles, so for pixel counts
\* the comparison agrees with the comparison of the exact fractions.
AspectOutOfRange(width, height) ==
    ~(ASPECT_MAX * width >= height /\ width <= ASPECT_MAX * height)

\* `min(window_width, window_height) < MIN_SIDE_PX`.
TooSmall_Strict(width, height) == Min2(width, height) <= MIN_SIDE_PX
TooSmall(width, height) == Min2(width, height) < MIN_SIDE_PX

\* `num / den >= AREA_RATIO_MIN` for den > 0.  The literal 0.10 is the double
\* nearest to 1/10 and so is the quotient when num/den is exactly 1/10; any
\* other quotient of pixel areas is further from 1/10 than the rounding error.
AreaRatioReached(num, den) == AREA_RATIO_INV * num >= den

Area(m) == m.width * m.height

\* The loop over monitor_boxes: "True" on the first monitor whose share is
\* reached, ZeroDivisionError on a monitor of area 0 met before that, "none"
\* when the loop runs out.
RECURSIVE PerMonitorLoop(_, _, _)
PerMonitorLoop(window_bbox, monitor_boxes, i) ==
    IF i > Len(monitor_boxes) THEN "none"
    ELSE IF Area(monitor_boxes[i]) = 0 THEN "ZeroDivisionError"
    ELSE IF AreaRatioReached(intersection(monitor_boxes[i], window_bbox),
                             Area(monitor_boxes[i])) THEN "True"
    ELSE PerMonitorLoop(window_bbox, monitor_boxes, i + 1)

\* visible = sum(intersection(window_bbox, m) for m in monitor_boxes)
RECURSIVE Visible(_, _, _)
Visible(window_bbox, monitor_boxes, i) ==
    IF i > Len(monitor_boxes) THEN 0
    ELSE intersection(window_bbox, monitor_boxes[i])
         + Visible(window_bbox, monitor_boxes, i + 1)

\* ref_area = max(m.width * m.height for m in monitor_boxes), list not empty
RECURSIVE RefArea(_, _)
RefArea(monitor_boxes, i) ==
    IF i = Len(monitor_boxes) THEN Area(monitor_boxes[i])
    ELSE Max2(Area(monitor_boxes[i]), RefArea(monitor_boxes, i + 1))

\* get_window_info.active_window_likely_relevant: "True", "False", or the
\* exception that escapes it.
active_window_likely_relevant(window_bbox, monitor_boxes) ==
    IF window_bbox.width <= 0 \/ window_bbox.height <= 0 THEN "False"
    ELSE IF AspectOutOfRange(window_bbox.width, window_bbox.height) THEN "False"
    ELSE IF TooSmall(window_bbox.width, window_bbox.height) THEN "False"
    ELSE LET loop == PerMonitorLoop(window_bbox, monitor_boxes, 1) IN
         IF loop # "none" THEN loop
         ELSE IF monitor_boxes = <<>> THEN "ValueError"
         ELSE IF AreaRatioReached(Visible(window_bbox, monitor_boxes, 1),
                                  RefArea(monitor_boxes, 1)) THEN "True"
         ELSE "False"

\* get_window_info.get_active_window_if_relevant once the provider has
\* returned a window: the window, None, or the exception passed on.
IfRelevant(verdict) ==
    CASE verdict = "True" -> "window"
      [] verdict = "False" -> "None"
      [] OTHER -> verdict

\* Window boxes and monitor layouts the helpers are called with.
RfSides == {0, 199, 200, 800, 801}
RfLefts == {-1, 0, 900, 5000}
RfTops == {0, 5000}
RfWindows == {Box(l, t, w, h) : l \in RfLefts, t \in RfTops, w \in RfSides, h \in RfSides}
MonA == Box(0, 0, 1000, 400)
MonB == Box(0, 0, 1000, 1000)
MonC == Box(1000, 0, 1000, 1000)
MonD == Box(0, 0, 1600, 1000)
MonZ == Box(0, 0, 0, 0)
RfLayouts == {<<MonA>>, <<MonB>>, <<MonB, MonC>>, <<MonA, MonA>>, <<MonA, MonB>>,
              <<MonD>>, <<>>, <<MonZ>>, <<MonB, MonZ>>}

\* One call of get_active_window_if_relevant whose provider returned a window
\* with bbox w and the monitor boxes ms.
RelevanceCall ==
    /\ call = NoCall
    /\ \E w \in RfWindows, ms \in RfLayouts :
         /\ call' = [op |-> "get_active_window_if_relevant",
                     window |-> w, monitors |-> ms,
                     verdict |-> active_window_likely_relevant(w, ms),
                     returned |-> IfRelevant(active_window_likely_relevant(w, ms))]
    /\ UNCHANGED <<clock, shots_supported, cfgVars, worker, schedVars, queueVars,
                   senderVars, schedHist, swallowed, senderHist>>

\* ------------------------------------------------- screenshotter helpers
NoLayout == [left |-> 0, top |-> 0, width |-> -1, height |-> -1]

\* min(xs), max(xe), ... over the outputs in get_wl_layout_bounds.
RECURSIVE MinOver(_, _)
MinOver(vals, i) ==
    IF i = Len(vals) THEN vals[i] ELSE Min2(vals[i], MinOver(vals, i + 1))
RECURSIVE MaxOver(_, _)
MaxOver(vals, i) ==
    IF i = Len(vals) THEN vals[i] ELSE Max2(vals[i], MaxOver(vals, i + 1))

\* screenshotter.get_wl_layout_bounds: (lx, ly, w, h) around the rects of all
\* outputs the compositor lists; None when the query fails or lists nothing.
get_wl_layout_bounds(outs, query_ok) ==
    IF ~query_ok \/ outs = <<>> THEN NoLayout
    ELSE LET xs == [i \in 1..Len(outs) |-> outs[i].left]
             ys == [i \in 1..Len(outs) |-> outs[i].top]
             xe == [i \in 1..Len(outs) |-> outs[i].left + outs[i].width]
             ye == [i \in 1..Len(outs) |-> outs[i].top + outs[i].height]
             lx == MinOver(xs, 1)
             ly == MinOver(ys, 1)
             rx == MaxOver(xe, 1)
             by == MaxOver(ye, 1)
         IN  Box(lx, ly, Max2(0, rx - lx), Max2(0, by - ly))

\* new_left = max(left, lx), new_top = max(top, ly)
ClampLow_Keep(v, lo) == v
ClampLow(v, lo) == Max2(v, lo)

\* The clamp of GrimScreenshotter.capture_window (layout is not None).
GrimClamp(bbox, layout) ==
    LET new_left == ClampLow(bbox.left, layout.left)
        new_top == ClampLow(bbox.top, layout.top)
        new_right == Min2(bbox.left + bbox.width, layout.left + layout.width)
        new_bottom == Min2(bbox.top + bbox.height, layout.top + layout.height)
    IN  Box(new_left, new_top, Max2(0, new_right - new_left), Max2(0, new_bottom - new_top))

\* geometry = f"{left},{top} {width}x{height}"
GrimGeometry(r) ==
    ToString(r.left) \o "," \o ToString(r.top) \o " "
        \o ToString(r.width) \o "x" \o ToString(r.height)

\* Window boxes and output lists GrimScreenshotter is called with.
GrimLefts == {-50, 0, 1900, 4000}
GrimTops == {0, 1000, 1100}
GrimWidths == {0, 100, 1200}
GrimHeights == {0, 800}
GrimWindows == {Box(l, t, w, h) : l \in GrimLefts, t \in GrimTops,
                                  w \in GrimWidths, h \in GrimHeights}
OutputLeft == Box(0, 0, 1920, 1080)
OutputRight == Box(1920, 0, 1920, 1080)
GrimOutputs == {<<>>, <<OutputLeft>>, <<OutputLeft, OutputRight>>}
GrimResults == {"image", "TimeoutExpired", "CalledProcessError"}

\* GrimScreenshotter.capture_window: the size check, the clamp, the second
\* size check, then grim with the geometry string; grim's own failures are
\* re-raised.
GrimCapture ==
    /\ call = NoCall
    /\ \E bbox \in GrimWindows, outs \in GrimOutputs, query_ok \in BOOLEAN,
          grim_result \in GrimResults :
         LET layout == get_wl_layout_bounds(outs, query_ok)
             rect == IF layout = NoLayout THEN bbox ELSE GrimClamp(bbox, layout)
             invalid == bbox.width <= 0 \/ bbox.height <= 0
             empty == rect.width <= 0 \/ rect.height <= 0
         IN  call' = [op |-> "capture_window", bbox |-> bbox,
                      layout |-> IF invalid THEN NoLayout ELSE layout,
                      grim_invoked |-> ~invalid /\ ~empty,
                      rect |-> rect,
                      geometry |-> IF invalid \/ empty THEN "" ELSE GrimGeometry(rect),
                      outcome |-> IF invalid \/ empty THEN "ValueError" ELSE grim_result]
    /\ UNCHANGED <<clock, shots_supported, cfgVars, worker, schedVars, queueVars,
                   senderVars, schedHist, swallowed, senderHist>>

\* ------------------------------------------------- window info providers
\* What one attempt of a provider meets: a live window ("ok"), no window
\* (None, not alive, empty JSON, no focused node: "missing"), a KeyError,
\* AttributeError or ValueError while the window is read ("vanished"), or
\* any other exception ("error").
AttemptKinds == {"ok", "missing", "vanished", "error"}
Providers == {"PyWinctl", "Hyprland", "Sway", "UnsupportedWayland"}

\* `except (KeyError, AttributeError, ValueError)` around the read of a window.
Caught_Nothing(kind) == FALSE
Caught(kind) == kind = "vanished"

\* `for attempt in range(retries)`: attempt i of the loop, given what the
\* attempts meet; yields the number of attempts made, the number of
\* time.sleep(retry_cooldown) calls, and what the call returns or raises.
RECURSIVE RetryLoop(_, _, _, _)
RetryLoop(meets, retries, i, sleeps) ==
    IF i > retries
    THEN [attempts |-> retries, sleeps |-> sleeps, result |-> "None", from |-> 0,
          boxes |-> "empty"]
    ELSE IF meets[i] = "ok"
    THEN [attempts |-> i, sleeps |-> sleeps, result |-> "window", from |-> i,
          boxes |-> "monitors"]
    ELSE IF meets[i] = "missing" \/ Caught(meets[i])
    THEN RetryLoop(meets, retries, i + 1, sleeps + 1)
    ELSE [attempts |-> i, sleeps |-> sleeps, result |-> "Exception", from |-> 0,
          boxes |-> "none"]

\* get_active_window_and_monitor_boxes of the four providers: Hyprland and
\* Sway first look for their IPC tool, UnsupportedWayland always raises.
get_active_window_and_monitor_boxes(provider, tool_found, meets, retries) ==
    IF provider = "UnsupportedWayland" \/ (provider \in {"Hyprland", "Sway"} /\ ~tool_found)
    THEN [attempts |-> 0, sleeps |-> 0, result |-> "NotImplementedError", from |-> 0,
          boxes |-> "none"]
    ELSE RetryLoop(meets, retries, 1, 0)

\* get_active_window_if_relevant up to the relevance check: None for
\* NotImplementedError and for no window, the check for a window, any other
\* exception passed on.
BeforeRelevance(result) ==
    CASE result = "NotImplementedError" -> "None"
      [] result = "None" -> "None"
      [] result = "window" -> "active_window_likely_relevant"
      [] OTHER -> result

MaxRetries == 3

\* One call of get_active_window_if_relevant(retries, retry_cooldown) up to
\* the relevance check.
ProviderCall ==
    /\ call = NoCall
    /\ \E provider \in Providers, tool_found \in BOOLEAN, retries \in 0..MaxRetries,
          meets \in [1..MaxRetries -> AttemptKinds] :
         LET r == get_active_window_and_monitor_boxes(provider, tool_found, meets, retries)
         IN  call' = [op |-> "get_active_window_and_monitor_boxes",
                      provider |-> provider, tool_found |-> tool_found,
                      retries |-> retries, meets |-> meets,
                      attempts |-> r.attempts, sleeps |-> r.sleeps,
                      result |-> r.result, from |-> r.from, boxes |-> r.boxes,
                      then |-> BeforeRelevance(r.result)]
    /\ UNCHANGED <<clock, shots_supported, cfgVars, worker, schedVars, queueVars,
                   senderVars, schedHist, swallowed, senderHist>>

\* --------------------------------------------------- WaylandIdleDetector
\* What the DBus services answer to one get_idle_seconds call.
ProbeKinds == {"connect_fails", "call_fails", "replies"}
PortalKinds == {"connect_fails", "CreateMonitor_fails", "monitoring"}
LogindKinds == {"connect_fails", "ListSessions_fails", "AddMatch_fails", "monitoring"}
\* An idle timestamp on the monotonic clock: <<>> for None, <<t>> for t.
PortalStamps == {<<>>, <<0>>}
LogindStamps == {<<>>, <<1>>, <<2>>}
\* What loginctl_idle_seconds returns: <<>> for None, <<v>> for v seconds.
LoginctlReadings == {<<>>, <<6>>}
\* The probes of get_idle_seconds in the order of the code.
ProbeOrder == <<"mutter", "screensaver", "portal", "logind", "loginctl", "logind_fallback">>

\* WaylandIdleDetector.__init__
NewDetector ==
    [op |-> "WaylandIdleDetector", phase |-> "entered",
     portal_failed |-> FALSE, portal_bus |-> FALSE, portal_handler |-> FALSE,
     portal_idle_since_monotonic |-> <<>>, portal_connects |-> 0,
     logind_failed |-> FALSE, logind_bus |-> FALSE, logind_handler |-> FALSE,
     logind_idle_since_monotonic |-> <<>>, logind_connects |-> 0,
     opened |-> {}, disconnected |-> {},
     tried |-> <<>>, yields |-> {}, returned_by |-> "none", value |-> 0, raised |-> FALSE]

\* max(0.0, v)
AtLeastZero_Keep(v) == v
AtLeastZero(v) == Max2(0, v)

\* A one-shot probe of get_idle_seconds: connect, call, and bus.disconnect()
\* in the finally of the inner try.
Probe(d, kind, name) ==
    IF kind = "connect_fails" THEN d
    ELSE [d EXCEPT !.opened = @ \cup {name}, !.disconnected = @ \cup {name}]

\* `if self.portal_failed: return False` / `if self.logind_failed: return False`
MarkedFailed_Ignored(failed) == FALSE
MarkedFailed(failed) == failed

\* ensure_portal_monitor: nothing is done once the probe has failed or while
\* the bus is held.  Otherwise the connection lives in the local `bus` until
\* the handler is installed; the except branch marks the probe failed and
\* disconnects self.portal_bus, which is still None when CreateMonitor fails
\* or times out.
ensure_portal_monitor(d, kind) ==
    IF MarkedFailed(d.portal_failed) \/ d.portal_bus THEN d
    ELSE CASE kind = "connect_fails" -> [d EXCEPT !.portal_failed = TRUE]
           [] kind = "CreateMonitor_fails" ->
                [d EXCEPT !.portal_failed = TRUE, !.opened = @ \cup {"portal"},
                          !.portal_connects = @ + 1]
           [] OTHER ->
                [d EXCEPT !.portal_bus = TRUE, !.portal_handler = TRUE,
                          !.portal_idle_since_monotonic = <<>>,
                          !.opened = @ \cup {"portal"}, !.portal_connects = @ + 1]

\* ensure_logind_monitor: as above, but the except branch disconnects the
\* local `bus`; the GetAll after AddMatch reads the idle timestamp.
ensure_logind_monitor(d, kind, props) ==
    IF MarkedFailed(d.logind_failed) \/ d.logind_bus THEN d
    ELSE CASE kind = "connect_fails" -> [d EXCEPT !.logind_failed = TRUE]
           [] kind \in {"ListSessions_fails", "AddMatch_fails"} ->
                [d EXCEPT !.logind_failed = TRUE, !.opened = @ \cup {"logind"},
                          !.disconnected = @ \cup {"logind"},
                          !.logind_connects = @ + 1]
           [] OTHER ->
                [d EXCEPT !.logind_bus = TRUE, !.logind_handler = TRUE,
                          !.logind_idle_since_monotonic = props,
                          !.opened = @ \cup {"logind"}, !.logind_connects = @ + 1]

\* A `return v` of get_idle_seconds after the probes up to number n.
Returned(d, n, v) ==
    [d EXCEPT !.tried = SubSeq(ProbeOrder, 1, n), !.returned_by = ProbeOrder[n],
              !.value = v]

\* WaylandIdleDetector.get_idle_seconds at monotonic time t: the probes in
\* order, each inside its own try/except Exception, then `return 0.0`.
get_idle_seconds(d0, t, mutter, saver, portal, logind, props, loginctl, fallback) ==
    LET d1 == Probe(d0, mutter, "mutter")
        d2 == Probe(d1, saver, "screensaver")
        d3 == ensure_portal_monitor(d2, portal)
        d4 == ensure_logind_monitor(d3, logind, props)
        d6 == Probe(d4, fallback, "logind_fallback")
    IN  IF mutter = "replies" THEN Returned(d1, 1, 3000 \div 1000)
        ELSE IF saver = "replies" THEN Returned(d2, 2, 4)
        ELSE IF d3.portal_bus /\ d3.portal_idle_since_monotonic # <<>>
        THEN Returned(d3, 3, AtLeastZero(t - d3.portal_idle_since_monotonic[1]))
        ELSE IF d4.logind_bus /\ d4.logind_idle_since_monotonic # <<>>
        THEN Returned(d4, 4, AtLeastZero(t - d4.logind_idle_since_monotonic[1]))
        ELSE IF loginctl # <<>> THEN Returned(d4, 5, loginctl[1])
        ELSE IF fallback = "replies" THEN Returned(d6, 6, AtLeastZero(7))
        ELSE [d6 EXCEPT !.tried = ProbeOrder, !.returned_by = "none", !.value = 0]

\* The StateChanged / PropertiesChanged handlers: a signal that arrived since
\* the last call has set the idle timestamp of a monitor whose bus is held.
Signalled(d, portal_signal, logind_signal) ==
    [d EXCEPT !.portal_idle_since_monotonic = IF d.portal_bus THEN portal_signal ELSE @,
              !.logind_idle_since_monotonic = IF d.logind_bus THEN logind_signal ELSE @]

\* The probes that have a value to give in a call: what the services answer,
\* for the monitors what the detector holds after its ensure step.
Yielding(d, mutter, saver, portal, logind, props, loginctl, fallback) ==
    LET d3 == ensure_portal_monitor(d, portal)
        d4 == ensure_logind_monitor(d3, logind, props)
    IN  {n \in {"mutter"} : mutter = "replies"}
        \cup {n \in {"screensaver"} : saver = "replies"}
        \cup {n \in {"portal"} : d3.portal_bus /\ d3.portal_idle_since_monotonic # <<>>}
        \cup {n \in {"logind"} : d4.logind_bus /\ d4.logind_idle_since_monotonic # <<>>}
        \cup {n \in {"loginctl"} : loginctl # <<>>}
        \cup {n \in {"logind_fallback"} : fallback = "replies"}

\* WaylandIdleDetector.cleanup: disconnects self.portal_bus and self.logind_bus
\* and forgets buses, handlers and timestamps; the failed marks stay.
cleanup(d) ==
    [d EXCEPT !.phase = "exited",
              !.disconnected = @ \cup {n \in {"portal"} : d.portal_bus}
                                 \cup {n \in {"logind"} : d.logind_bus},
              !.portal_bus = FALSE, !.portal_handler = FALSE,
              !.portal_idle_since_monotonic = <<>>,
              !.logind_bus = FALSE, !.logind_handler = FALSE,
              !.logind_idle_since_monotonic = <<>>]

\* data_generator.py:128  `async with idle:` enters the scope of a new detector.
IdleEnter ==
    /\ call = NoCall
    /\ call' = NewDetector
    /\ UNCHANGED <<clock, shots_supported, cfgVars, worker, schedVars, queueVars,
                   senderVars, schedHist, swallowed, senderHist>>

\* One `await idle.get_idle_seconds()` inside the scope.  An answer of a
\* service is drawn only where the call can ask for it.
IdleGet ==
    /\ call.op = "WaylandIdleDetector" /\ call.phase = "entered"
    /\ \E mutter \in ProbeKinds, saver \in ProbeKinds, fallback \in ProbeKinds,
          loginctl \in LoginctlReadings,
          portal \in (IF call.portal_failed \/ call.portal_bus
                      THEN {"monitoring"} ELSE PortalKinds),
          logind \in (IF call.logind_failed \/ call.logind_bus
                      THEN {"monitoring"} ELSE LogindKinds),
          portal_signal \in (IF call.portal_bus THEN PortalStamps ELSE {<<>>}),
          logind_signal \in (IF call.logind_bus THEN LogindStamps ELSE {<<>>}) :
         \E props \in (IF logind = "monitoring" /\ ~call.logind_failed /\ ~call.logind_bus
                       THEN LogindStamps ELSE {<<>>}) :
         LET d == Signalled(call, portal_signal, logind_signal)
         IN  call' = [get_idle_seconds(d, clock, mutter, saver, portal, logind, props,
                                       loginctl, fallback)
                        EXCEPT !.yields = Yielding(d, mutter, saver, portal, logind,
                                                   props, loginctl, fallback)]
    /\ UNCHANGED <<clock, shots_supported, cfgVars, worker, schedVars, queueVars,
                   senderVars, schedHist, swallowed, senderHist>>

\* __aexit__: stop(), then cleanup().
IdleExit ==
    /\ call.op = "WaylandIdleDetector" /\ call.phase = "entered"
    /\ call' = cleanup(call)
    /\ UNCHANGED <<clock, shots_supported, cfgVars, worker, schedVars, queueVars,
                   senderVars, schedHist, swallowed, senderHist>>

\* One scope of a WaylandIdleDetector with any number of calls.
NextIdle ==
    \/ IdleEnter
    \/ IdleGet
    \/ IdleExit

\* The application as constructed, on a platform with screenshots, not paired.
InitIdle == Init /\ shots_supported /\ user = DefaultUser

SpecIdle == InitIdle /\ [][NextIdle]_vars

\* ------------------------------------------- synchronous calls on the loop
\* The `timeout` argument of subprocess.run, in seconds; NoTimeout when the
\* call passes none (HyprlandWindowInfoProvider.run, SwayWindowInfoProvider.run).
NoTimeout == 0
GrimTimeout == 5

\* data_generator.py:83  the scheduler calls get_active_window_if_relevant
\* directly: the hyprctl/swaymsg subprocess and the time.sleep between the
\* retries run on the thread of the event loop.
LookupStarts ==
    /\ worker = "running" /\ pc = "first" /\ Paired(user)
    /\ call = NoCall
    /\ call' = [op |-> "blocking", what |-> "lookup", timeout |-> NoTimeout]
    /\ UNCHANGED <<clock, shots_supported, cfgVars, worker, schedVars, queueVars,
                   senderVars, schedHist, swallowed, senderHist>>

\* screenshotter.py:128-134  GrimScreenshotter.capture_window runs grim with
\* subprocess.run(timeout=5) inside the coroutine.
GrimStarts ==
    /\ worker = "running" /\ pc = "capture" /\ ~CreateRaises(shots_supported)
    /\ call = NoCall
    /\ call' = [op |-> "blocking", what |-> "grim", timeout |-> GrimTimeout]
    /\ UNCHANGED <<clock, shots_supported, cfgVars, worker, schedVars, queueVars,
                   senderVars, schedHist, swallowed, senderHist>>

\* The synchronous call is over; the coroutine that made it goes on.
BlockingReturns ==
    /\ call.op = "blocking"
    /\ call' = [op |-> "returned", what |-> call.what, timeout |-> call.timeout]
    /\ UNCHANGED <<clock, shots_supported, cfgVars, worker, schedVars, queueVars,
                   senderVars, schedHist, swallowed, senderHist>>

\* The tasks of the worker thread with one synchronous call of the scheduler
\* followed from its start to its return.
NextBlocking ==
    \/ Tick(MaxClockAll)
    \/ SchedGate
    \/ SchedFindFirst
    \/ SchedBoot
    \/ SchedLoopTop
    \/ SchedIdle
    \/ SchedCapture
    \/ SchedWake
    \/ SenderGet
    \/ SenderBuild
    \/ SenderUrls
    \/ SenderSend
    \/ LookupStarts
    \/ GrimStarts
    \/ BlockingReturns

SpecBlocking == Init /\ [][NextBlocking]_vars

\* The same tasks with a subprocess that exits only when it is made to:
\* subprocess.run kills the child and raises TimeoutExpired when its timeout
\* runs out, so a call with a timeout is bound to return; the steps of the
\* coroutines themselves are taken whenever they stay enabled.
TimeoutFires == BlockingReturns /\ call.timeout > NoTimeout
SpecTimeouts ==
    /\ Init /\ [][NextBlocking]_vars
    /\ WF_vars(TimeoutFires)
    /\ WF_vars(SchedGate) /\ WF_vars(SchedFindFirst) /\ WF_vars(SchedBoot)
    /\ WF_vars(SchedLoopTop) /\ WF_vars(SchedIdle) /\ WF_vars(SchedCapture)
    /\ WF_vars(SchedWake)

\* ---------------------------------------------------------- PlatformProbe
\* An environment variable is unset or holds a string, possibly the empty one.
Unset == "<unset>"
XdgValues == {Unset, "", "wayland", "Wayland", "x11"}
WaylandDisplayValues == {Unset, "", "wayland-0"}
DisplayValues == {Unset, "", ":0"}
PlatformTypes == {"windows", "macos", "linux", "unknown"}

\* os.environ.get(name, ""): the value, "" when the variable is unset.
EnvGetOrEmpty(v) == IF v = Unset THEN "" ELSE v
\* str.lower() on the values above.
Lower(v) == IF v = "Wayland" THEN "wayland" ELSE v
\* Truth value of os.environ.get(name): None and "" are false.
Truthy_IsSet(v) == v # Unset
Truthy(v) == v # Unset /\ v # ""

\* config.detect_display_server(platform_type)
detect_display_server(p, xdg_session_type, wayland_display, display) ==
    IF p = "windows" THEN "win32"
    ELSE IF p = "macos" THEN "cocoa"
    ELSE IF p = "linux" THEN
        IF Lower(EnvGetOrEmpty(xdg_session_type)) = "wayland" \/ Truthy(wayland_display)
        THEN "wayland"
        ELSE IF Truthy(display) THEN "x11"
        ELSE "unknown"
    ELSE "unknown"

\* One call of detect_display_server in some environment.
DetectCall ==
    /\ call = NoCall
    /\ \E p \in PlatformTypes, x \in XdgValues, w \in WaylandDisplayValues,
          d \in DisplayValues :
         call' = [op |-> "detect_display_server", platform |-> p,
                  XDG_SESSION_TYPE |-> x, WAYLAND_DISPLAY |-> w, DISPLAY |-> d,
                  result |-> detect_display_server(p, x, w, d)]
    /\ UNCHANGED <<clock, shots_supported, cfgVars, worker, schedVars, queueVars,
                   senderVars, schedHist, swallowed, senderHist>>

\* ------------------------------------------------------- window_to_hash
\* data_generator.same_window: the fingerprints of two windows compared.
HashCall ==
    /\ call = NoCall
    /\ \E a \in Windows, b \in Windows :
         call' = [op |-> "window_to_hash", a |-> a, b |-> b,
                  hash_a |-> window_to_hash(a), hash_b |-> window_to_hash(b)]
    /\ UNCHANGED <<clock, shots_supported, cfgVars, worker, schedVars, queueVars,
                   senderVars, schedHist, swallowed, senderHist>>

NextCalls ==
    \/ RelevanceCall
    \/ GrimCapture
    \/ ProviderCall
    \/ DetectCall
    \/ HashCall

SpecCalls == Init /\ [][NextCalls]_vars

\* ================================================================ claims
\* The DesktopCheck events put so far, in put order.
DesktopChecks == SelectSeq(log, LAMBDA e : e.kind = "DesktopCheck")
\* Indices of the AfkStart events put since the latest tick that observed
\* idle_seconds <= afk_timeout.
AfkStartsSinceActive == {i \in (obs_mark + 1)..Len(log) : log[i].kind = "AfkStart"}

\* C1 as stated: in every run, across paired sessions, any two consecutive
\* DesktopCheck events are enqueued at least global_cd apart.
C1_SpacingAcrossSessions ==
    \A i \in 1..(Len(DesktopChecks) - 1) :
        DesktopChecks[i + 1].at - DesktopChecks[i].at >= global_cd

\* C1 (amended): within one paired session, the clock readings on which two
\* consecutive DesktopChecks were decided (the session-start reading for the
\* bootstrap shot, `now` of the tick otherwise) are at least global_cd apart.
C1_SpacingInSession ==
    \A i \in 1..(Len(DesktopChecks) - 1) :
        DesktopChecks[i].session = DesktopChecks[i + 1].session
            => DesktopChecks[i + 1].tick - DesktopChecks[i].tick >= global_cd

\* C1 witness: a session whose bootstrap shot was followed by a shot of the
\* loop exactly global_cd later.
C1_Witness ==
    \E i \in 1..(Len(DesktopChecks) - 1) :
        /\ DesktopChecks[i].session = DesktopChecks[i + 1].session
        /\ DesktopChecks[i].boot
        /\ DesktopChecks[i + 1].tick - DesktopChecks[i].tick = global_cd

\* C2 as stated: any two DesktopChecks for the same window hash, bootstrap
\* shots and shots after re-pairing included, are enqueued at least
\* same_window_cd apart.
C2_SameHashAcrossSessions ==
    \A i, j \in 1..Len(DesktopChecks) :
        (i < j /\ DesktopChecks[i].hash = DesktopChecks[j].hash)
            => DesktopChecks[j].at - DesktopChecks[i].at >= same_window_cd

\* C2 (amended): within one paired session, two DesktopChecks for the same
\* window hash were decided on clock readings at least same_window_cd apart.
C2_SameHashInSession ==
    \A i, j \in 1..Len(DesktopChecks) :
        (/\ i < j
         /\ DesktopChecks[i].hash = DesktopChecks[j].hash
         /\ DesktopChecks[i].session = DesktopChecks[j].session)
            => DesktopChecks[j].tick - DesktopChecks[i].tick >= same_window_cd

\* C2 witness: one session shot the same hash twice, with a shot of another
\* window in between.
C2_Witness ==
    \E i, j, k \in 1..Len(DesktopChecks) :
        /\ i < k /\ k < j
        /\ DesktopChecks[i].hash = DesktopChecks[j].hash
        /\ DesktopChecks[k].hash # DesktopChecks[i].hash
        /\ DesktopChecks[i].session = DesktopChecks[j].session

\* C3 as stated: once a tick observed idle_seconds > afk_timeout, at most one
\* AfkStart is enqueued until a tick observes idle_seconds <= afk_timeout,
\* over every sequence of ticks, exceptions and pairing changes.
C3_OneAfkStartAcrossSessions == Cardinality(AfkStartsSinceActive) <= 1

\* C3 (amended): within one paired session, at most one AfkStart is enqueued
\* between a tick that observed idle_seconds > afk_timeout and the next tick
\* that observes idle_seconds <= afk_timeout.
C3_OneAfkStartPerSession ==
    \A i, j \in AfkStartsSinceActive : log[i].session = log[j].session => i = j

\* C3 witness: the session's AfkStart is out and a later tick of the same
\* session observed idle_seconds > afk_timeout again.
C3_Witness ==
    /\ afk_obs >= 2
    /\ is_afk
    /\ \E i \in AfkStartsSinceActive : log[i].session = session

\* C4 as stated: between an AfkStart and the first tick that observes
\* idle_seconds <= afk_timeout no DesktopCheck is enqueued, the bootstrap shot
\* of a paired session included.
C4_NoShotWhileAfkAcrossSessions ==
    \A i \in AfkStartsSinceActive :
        \A j \in (i + 1)..Len(log) : log[j].kind # "DesktopCheck"

\* C4 (amended): within one paired session, no DesktopCheck is enqueued
\* between the session's AfkStart and the first tick that observes
\* idle_seconds <= afk_timeout.
C4_NoShotWhileAfkInSession ==
    \A i \in AfkStartsSinceActive :
        \A j \in (i + 1)..Len(log) :
            log[j].session = log[i].session => log[j].kind # "DesktopCheck"

\* C4 witness: a session took shots, then went AFK, and ticks that went past
\* the global cooldown while AFK added no shot.
C4_Witness ==
    /\ afk_obs >= 2
    /\ Len(log) >= 2
    /\ log[Len(log)].kind = "AfkStart"
    /\ log[Len(log)].session = session
    /\ Len(log) > obs_mark
    /\ log[Len(log) - 1].kind = "DesktopCheck"
    /\ log[Len(log) - 1].session = session
    /\ pc = "sleep"
    /\ clock - last_shot_ts >= global_cd + 2

\* Events the dispatcher took from the queue so far.
Taken == Len(handled) + (IF s_event # 0 THEN 1 ELSE 0)

\* C5 as stated: every event the dispatcher handled was either delivered with
\* exactly one successful POST, or dropped with the drop logged and
\* last_data_sent_status set to Fail.
C5_DeliveredOrLoggedFail ==
    last_handled.id # 0 =>
        \/ last_handled.result = "delivered" /\ last_handled.posts = 1
        \/ /\ last_handled.result # "delivered"
           /\ last_handled.logged
           /\ last_handled.health_written
           /\ app_state.last_data_sent_status = "Fail"

\* C5 (amended): every event is taken from the queue at most once and its
\* handling ends in exactly one of three ways: delivered (one POST, status
\* Success), failed (at most one POST, logged, status Fail), or discarded
\* because the pairing check failed (no POST, no log entry, health not
\* written); task_done is called exactly once per handled event.
C5_HandledOnce ==
    /\ \A i, j \in 1..Len(handled) : handled[i] = handled[j] => i = j
    /\ \A i \in 1..Len(handled) : handled[i] # s_event /\ handled[i] \in 1..Len(log)
    /\ \A i \in 1..Len(queue) :
          queue[i] # s_event /\ \A j \in 1..Len(handled) : handled[j] # queue[i]
    /\ unfinished_tasks = Len(log) - Len(handled)
    /\ last_handled.id # 0 =>
          /\ last_handled.id = handled[Len(handled)]
          /\ \/ /\ last_handled.result = "delivered"
                /\ last_handled.posts = 1 /\ ~last_handled.logged
                /\ app_state.last_data_sent_status = "Success"
             \/ /\ last_handled.result = "failed"
                /\ last_handled.posts <= 1 /\ last_handled.logged
                /\ app_state.last_data_sent_status = "Fail"
             \/ /\ last_handled.result = "discarded"
                /\ last_handled.posts = 0 /\ ~last_handled.logged
                /\ ~last_handled.health_written

\* C5 witness: a delivery was followed by a failed send, with a third event
\* taken.
C5_Witness ==
    /\ Len(handled) >= 2
    /\ last_handled.result = "failed"
    /\ app_state.last_data_sent_status = "Fail"
    /\ s_event # 0

\* C6: the dispatcher handles the events in the order they were put, one at
\* a time: the handled events are the first puts in put order, the event in
\* hand is the next one, and the queue holds the rest in put order.
C6_FifoSerial ==
    /\ \A i \in 1..Len(handled) : handled[i] = i
    /\ s_event # 0 => s_event = Len(handled) + 1
    /\ Len(queue) = Len(log) - Taken
    /\ \A i \in 1..Len(queue) : queue[i] = Taken + i

\* C6 witness: two events are handled, a third is in hand and a fourth waits.
C6_Witness ==
    /\ Len(handled) = 2
    /\ s_event = 3
    /\ queue # <<>>

\* C7: when the dispatcher takes an event and its pairing check fails, it
\* issues no POST for it, marks it done and leaves AppHealth as it was.
C7_DiscardWhenUnpaired ==
    [][(queue # <<>> /\ queue' = Tail(queue) /\ ~ReallyPaired(user))
          => /\ app_state' = app_state
             /\ s_pc' = "get" /\ s_event' = 0
             /\ unfinished_tasks' = unfinished_tasks - 1
             /\ handled' = Append(handled, Head(queue))
             /\ last_handled'.posts = 0]_vars

\* C7 witness: an event was discarded after an earlier one set the health
\* status, which is still in place.
C7_Witness ==
    /\ last_handled.result = "discarded"
    /\ app_state.last_data_sent_status = "Success"
    /\ ~ReallyPaired(user)

\* C8 as stated: no event is enqueued while the pairing is invalid.
C8_NoPutWhileUnpaired == \A i \in 1..Len(log) : log[i].paired

\* C8 (amended): every enqueue happens in an iteration whose pairing check
\* succeeded; the pairing can have become invalid by the time of the put.
C8_PutAfterPassedCheck == \A i \in 1..Len(log) : log[i].checked

\* C8 witness: an event that passed its iteration's check was enqueued after
\* the GUI made the pairing invalid.
C8_Witness == \E i \in 1..Len(log) : log[i].checked /\ ~log[i].paired

\* The scheduler is at, or asleep on its way to, the pairing gate.
AtGate == pc \in {"gate", "first"} \/ (pc = "sleep" /\ resume \in {"gate", "first"})

\* C9: a tick that observes pairing lost leaves the inner loop and releases
\* the IdleDetector scope, then the Screenshotter scope, before the scheduler
\* is back at the pairing gate; no scope is held at the gate.
C9_ReleaseBeforeGate ==
    /\ [](AtGate => scopes = <<>>)
    /\ [][(pc = "loop" /\ pc' \notin {"loop", "idle"})
            => /\ ~check_ok'
               /\ scopes' = <<>>
               /\ Len(released') = Len(released) + 2
               /\ released'[Len(released) + 1].scope = "idle"
               /\ released'[Len(released) + 2].scope = "screenshotter"
               /\ \A i \in (Len(released) + 1)..Len(released') :
                     released'[i].stop /\ released'[i].cleanup]_vars

\* C9 witness: the scheduler is back at the gate after a session whose two
\* scopes were released.
C9_Witness ==
    /\ pc = "gate"
    /\ session >= 1
    /\ Len(released) = 2
    /\ released[1].scope = "idle" /\ released[2].scope = "screenshotter"
    /\ scopes = <<>>

\* C10 as stated: however the active phase ends (pairing loss, an exception,
\* quit_app), the scopes that were entered have run their release.
C10_ReleaseOnEveryExit == (worker # "running" \/ AtGate) => scopes = <<>>

\* C11 as stated: the queue between scheduler and dispatcher has a fixed
\* capacity which the number of queued events never exceeds, so that a put
\* on a full queue waits.
C11_QueueBounded == queue # <<>> => (maxsize > 0 /\ Len(queue) <= maxsize)

\* C12: window_hash_last_seen never holds more than 1000 entries at the end
\* of a tick, however many distinct windows were captured.
C12_LruAtMostCap == Len(window_hash_last_seen) <= LruCap

\* C12 witness: the dict is at its cap after a capture of a new window pushed
\* out the oldest entry.
C12_Witness ==
    /\ Len(window_hash_last_seen) = LruCap
    /\ window_hash_last_seen[1].hash # LruHash(1)
    /\ Len(log) >= 1
    /\ window_hash_last_seen[LruCap].hash = log[Len(log)].hash

\* The foreground hash has not changed since the previous shot; in
\* particular it never changed since the session began.
ConstantWindow == last_change_ts <= last_shot_ts

\* C13: while the foreground window stays the same and the user is not AFK,
\* a tick shoots exactly when constant_window_cd has elapsed since the
\* previous shot (the session start for the first one): no DesktopCheck
\* before that, and one on the first such tick.
C13_ConstantWindowHeartbeat ==
    /\ (pc = "idle" /\ ConstantWindow) =>
          \A idle_secs \in IdleReadings, r \in Windows :
              (~AfkDetected(idle_secs) /\ window_to_hash(r) = prev_hash)
                  => ((Decision(idle_secs, r) = "shoot")
                          <=> (now - last_shot_ts >= constant_window_cd))
    /\ \A i \in 1..(Len(DesktopChecks) - 1) :
          (/\ DesktopChecks[i].session = session
           /\ DesktopChecks[i + 1].session = session
           /\ DesktopChecks[i + 1].tick = last_shot_ts
           /\ last_change_ts <= DesktopChecks[i].tick)
              => DesktopChecks[i + 1].tick - DesktopChecks[i].tick >= constant_window_cd

\* C13 witness: a session on one window whose bootstrap shot was followed by
\* the heartbeat shot exactly constant_window_cd later.
C13_Witness ==
    \E i \in 1..(Len(DesktopChecks) - 1) :
        /\ DesktopChecks[i].boot
        /\ DesktopChecks[i].session = session
        /\ DesktopChecks[i + 1].session = session
        /\ DesktopChecks[i + 1].hash = DesktopChecks[i].hash
        /\ last_change_ts = DesktopChecks[i].tick
        /\ DesktopChecks[i + 1].tick = DesktopChecks[i].tick + constant_window_cd

\* C14: a tick that finds the foreground changed to a window with no capture
\* within same_window_cd shoots it exactly when global_cd has elapsed since
\* the last shot: the change is not acted on during the global cooldown, and
\* the shot does not wait for constant_window_cd.
C14_FocusChangeShot ==
    pc = "idle" =>
        \A idle_secs \in IdleReadings, r \in Windows :
            (/\ ~AfkDetected(idle_secs)
             /\ window_to_hash(r) # prev_hash
             /\ ~SameWindowCooldownActive(window_hash_last_seen, window_to_hash(r), now))
                => ((Decision(idle_secs, r) = "shoot")
                        <=> (now - last_shot_ts >= global_cd))

\* C14 witness: the bootstrap shot of A was followed, global_cd later and
\* before constant_window_cd, by a shot of another window B.
C14_Witness ==
    \E i \in 1..(Len(DesktopChecks) - 1) :
        /\ DesktopChecks[i].boot
        /\ DesktopChecks[i + 1].session = DesktopChecks[i].session
        /\ DesktopChecks[i + 1].hash # DesktopChecks[i].hash
        /\ DesktopChecks[i + 1].tick = DesktopChecks[i].tick + global_cd
        /\ global_cd < constant_window_cd
        /\ last_change_ts = DesktopChecks[i + 1].tick

\* C15 as stated (A shot at 0, B no earlier than global_cd, next A no earlier
\* than same_window_cd + global_cd: 5 and 20 with the defaults 5/15/30): after
\* a bootstrap shot of A and a shot of B, the next DesktopCheck for A is
\* enqueued no earlier than same_window_cd + global_cd after the session start.
C15_NextSameAfterSum ==
    \A i, k, j \in 1..Len(DesktopChecks) :
        (/\ i < k /\ k < j
         /\ DesktopChecks[i].boot
         /\ DesktopChecks[k].session = DesktopChecks[i].session
         /\ DesktopChecks[j].session = DesktopChecks[i].session
         /\ DesktopChecks[k].hash # DesktopChecks[i].hash
         /\ DesktopChecks[j].hash = DesktopChecks[i].hash)
            => DesktopChecks[j].at >= DesktopChecks[i].tick + same_window_cd + global_cd

\* C15 (amended): after a bootstrap shot of A at the session start, whatever
\* the foreground does, the first DesktopCheck for another window B is
\* enqueued no earlier than global_cd later and the next DesktopCheck for A
\* no earlier than same_window_cd later (5 and 15 with the defaults).
C15_AlternatingLowerBounds ==
    \A i, j \in 1..Len(DesktopChecks) :
        (/\ i < j
         /\ DesktopChecks[i].boot
         /\ DesktopChecks[j].session = DesktopChecks[i].session)
            => /\ DesktopChecks[j].at >= DesktopChecks[i].tick + global_cd
               /\ DesktopChecks[j].hash = DesktopChecks[i].hash
                    => DesktopChecks[j].at >= DesktopChecks[i].tick + same_window_cd

\* C15 witness: bootstrap shot of A, B shot global_cd later, and A shot again
\* same_window_cd after the session start, sooner than same_window_cd +
\* global_cd.
C15_Witness ==
    \E i, k, j \in 1..Len(DesktopChecks) :
        /\ i < k /\ k < j
        /\ DesktopChecks[i].boot
        /\ DesktopChecks[k].session = DesktopChecks[i].session
        /\ DesktopChecks[j].session = DesktopChecks[i].session
        /\ DesktopChecks[k].hash # DesktopChecks[i].hash
        /\ DesktopChecks[k].tick = DesktopChecks[i].tick + global_cd
        /\ DesktopChecks[j].hash = DesktopChecks[i].hash
        /\ DesktopChecks[j].at = DesktopChecks[i].tick + same_window_cd

\* C16: an exception raised inside an iteration of the inner loop (idle
\* read, window lookup and relevance check, capture and put) never ends the
\* scheduler: the tick enqueues nothing more, keeps both scopes and sleeps
\* one poll interval before the next tick.
C16_LoopSwallowsExceptions ==
    /\ [](swallowed # "none" =>
            /\ worker # "crashed"
            /\ pc \in {"sleep", "loop", "idle"}
            /\ scopes = <<"screenshotter", "idle">>)
    /\ [][(pc \in {"idle", "capture"} /\ pc' # pc)
            => /\ worker' = "running"
               /\ pc' \in {"capture", "sleep"}
               /\ scopes' = scopes
               /\ pc' = "sleep" => resume' = "loop"
               /\ swallowed' # "none" =>
                     /\ pc' = "sleep"
                     /\ wake' = clock + active_window_poll_interval
                     /\ log' = log]_vars

\* C16 witness: the window lookup of one tick raised and the scheduler is in
\* its next tick, still running inside both scopes.
C16_Witness ==
    /\ swallowed = "lookup"
    /\ pc = "idle"
    /\ worker = "running"
    /\ scopes = <<"screenshotter", "idle">>

\* C17 as stated: no failure during the bootstrap step of a paired session
\* (first-window lookup and relevance check, construction and entry of the
\* backends, initial capture) ends the scheduler: from the bootstrap it goes
\* on to the inner loop or back to the pairing gate.
C17_BootstrapNeverFatal ==
    [][(pc \in {"first", "boot"} /\ worker = "running")
          => /\ worker' # "crashed"
             /\ pc' \in {"first", "boot", "loop", "gate", "sleep"}]_vars

\* C18 as stated: an unhandled exception in the scheduler ends that task
\* only: the dispatcher keeps running, so with the scheduler dead it can
\* still take a queued event.
C18_OtherTasksKeepRunning ==
    (pc = "dead" /\ s_pc = "get" /\ queue # <<>>) => ENABLED SenderGet

\* C19: when create_screenshotter raises NotImplementedError the cycle
\* enqueues nothing, enters no backend scope, leaves the scheduler running
\* and sleeps one poll interval on its way back to the pairing gate.
C19_UnsupportedDemotesCycle ==
    /\ [](~shots_supported =>
            /\ log = <<>>
            /\ scopes = <<>>
            /\ pc \in {"gate", "first", "sleep", "dead"})
    /\ [][(~shots_supported /\ pc = "first" /\ session' # session)
            => /\ worker' = "running"
               /\ pc' = "sleep" /\ resume' = "gate"
               /\ wake' = clock + active_window_poll_interval
               /\ log' = log /\ scopes' = <<>>]_vars

\* C19 witness: screenshots are unsupported, two cycles got as far as
\* create_screenshotter, and the scheduler is running at the gate again.
C19_Witness ==
    /\ ~shots_supported
    /\ session >= 2
    /\ pc = "gate"
    /\ worker = "running"
    /\ log = <<>>

\* C20 as stated: while the pairing stays as it is, the unsupported
\* screenshotter is reported once and not again on later cycles.
C20_ReportedOnce == ui_ops = 0 => UnsupportedReports <= 1

\* C21: after each send attempt last_data_sent_status is Success when the
\* POST returned a success status and Fail when it returned an HTTP error or
\* anything raised; the event is not sent again, whatever the outcome, and
\* the dispatcher goes on to the next get.
C21_HealthFollowsAttempt ==
    /\ [](\A i \in 1..Len(handled) :
             handled[i] # s_event /\ \A j \in 1..Len(queue) : queue[j] # handled[i])
    /\ [][(s_pc = "send" /\ s_pc' # "send")
            => /\ last_handled'.id = s_event
               /\ last_handled'.posts <= 1
               /\ app_state'.last_data_sent_timestamp = clock
               /\ app_state'.last_data_sent_status =
                     (IF last_handled'.result = "delivered" THEN "Success" ELSE "Fail")
               /\ last_handled'.result = "delivered" => last_handled'.posts = 1
               /\ handled' = Append(handled, s_event)
               /\ queue' = queue
               /\ s_pc' = "get" /\ s_event' = 0]_vars

\* C21 witness: a POST failed, the status is Fail with the time of the
\* attempt, and the dispatcher has taken the next event.
C21_Witness ==
    /\ last_handled.result = "failed"
    /\ last_handled.posts = 1
    /\ app_state.last_data_sent_status = "Fail"
    /\ app_state.last_data_sent_timestamp = clock
    /\ s_pc = "build"
    /\ s_event = last_handled.id + 1

\* The backends a configuration record can name: URL and token of one
\* pairing.
PairedBackends ==
    {[clepsy_backend_url |-> u, device_token |-> t] : u \in BackendUrls, t \in DeviceTokens}
        \cup {OtherBackend}

\* C22 as stated: the request the dispatcher is about to send carries an
\* Authorization header, and its token and base URL are those of one
\* configuration record, also when the GUI replaced the record meanwhile.
C22_OneRecordPerIteration ==
    s_pc = "send" =>
        /\ s_headers # ""
        /\ [clepsy_backend_url |-> s_url, device_token |-> s_headers] \in PairedBackends

\* C23 as stated: once reset_user_config has removed the stored pairing, the
\* configuration in memory is back to its defaults (empty URL, empty token),
\* so that the pairing checks of the scheduler and the dispatcher fail.
C23_ResetClearsPairing ==
    cfg_file = NoFile => (user = DefaultUser /\ ~Paired(user))

\* The call recorded is one of the RelevanceFilter.
RelevanceChecked == call.op = "get_active_window_if_relevant"
\* A non-empty list of monitors of positive area.
PositiveLayout(ms) == ms # <<>> /\ \A i \in 1..Len(ms) : Area(ms[i]) > 0
\* The box two boxes share (width 0 when they are disjoint).
SharedBox(a, b) ==
    LET x1 == Max2(a.left, b.left)
        y1 == Max2(a.top, b.top)
        x2 == Min2(a.left + a.width, b.left + b.width)
        y2 == Min2(a.top + a.height, b.top + b.height)
    IN  IF x2 > x1 /\ y2 > y1 THEN Box(x1, y1, x2 - x1, y2 - y1) ELSE Box(0, 0, 0, 0)
\* The area of w inside the union of the monitors of a layout of one or two
\* monitors: a region covered by both monitors counts once.
UnionIntersection(w, ms) ==
    IF Len(ms) = 1 THEN intersection(w, ms[1])
    ELSE intersection(w, ms[1]) + intersection(w, ms[2])
         - intersection(w, SharedBox(ms[1], ms[2]))
\* The size and aspect rules as the specification states them.
SizeRulesMet(w) ==
    /\ w.width > 0 /\ w.height > 0
    /\ ASPECT_MAX * w.width >= w.height /\ w.width <= ASPECT_MAX * w.height
    /\ Min2(w.width, w.height) >= MIN_SIDE_PX

\* C24 as stated: for a non-empty list of monitors of positive area the
\* verdict is true exactly when the size and aspect rules are met and either
\* some monitor is covered to 10% by the window or the window's intersection
\* with the union of the monitors is at least 10% of the largest monitor.
C24_VerdictIsStatedRule ==
    (RelevanceChecked /\ PositiveLayout(call.monitors)) =>
        ((call.verdict = "True") <=>
            /\ SizeRulesMet(call.window)
            /\ \/ \E i \in 1..Len(call.monitors) :
                     AREA_RATIO_INV * intersection(call.window, call.monitors[i])
                         >= Area(call.monitors[i])
               \/ AREA_RATIO_INV * UnionIntersection(call.window, call.monitors)
                     >= RefArea(call.monitors, 1))

\* C25: the thresholds are inclusive.  A window that meets every rule and
\* sits exactly on a threshold (min side 200, width/height 1/4 or 4, or a
\* single monitor of area A covered in exactly A/10) is accepted.
C25_ThresholdsInclusive ==
    (/\ RelevanceChecked /\ PositiveLayout(call.monitors)
     /\ SizeRulesMet(call.window)
     /\ \E i \in 1..Len(call.monitors) :
            AREA_RATIO_INV * intersection(call.window, call.monitors[i])
                >= Area(call.monitors[i])
     /\ \/ Min2(call.window.width, call.window.height) = MIN_SIDE_PX
        \/ ASPECT_MAX * call.window.width = call.window.height
        \/ call.window.width = ASPECT_MAX * call.window.height
        \/ /\ Len(call.monitors) = 1
           /\ AREA_RATIO_INV * intersection(call.window, call.monitors[1])
                  = Area(call.monitors[1]))
        => (call.verdict = "True" /\ call.returned = "window")

\* C25 witness: an accepted window that sits on three thresholds at once:
\* min side 200, width/height exactly 4, and exactly a tenth of its monitor.
C25_Witness ==
    /\ RelevanceChecked
    /\ Len(call.monitors) = 1 /\ Area(call.monitors[1]) > 0
    /\ Min2(call.window.width, call.window.height) = MIN_SIDE_PX
    /\ call.window.width = ASPECT_MAX * call.window.height
    /\ AREA_RATIO_INV * intersection(call.window, call.monitors[1]) = Area(call.monitors[1])
    /\ call.verdict = "True"

\* C26 as stated: a window that shares no area with any of the monitors it is
\* checked against is rejected, and get_active_window_if_relevant returns None.
C26_DisjointWindowRejected ==
    (/\ RelevanceChecked
     /\ \A i \in 1..Len(call.monitors) :
            intersection(call.window, call.monitors[i]) = 0)
        => (call.verdict = "False" /\ call.returned = "None")

\* The integers of one axis that lie in [lo, lo + len).
Span(lo, len) == {x \in -50..5200 : lo <= x /\ x < lo + len}

\* C27: with known layout bounds, grim is invoked exactly when the window bbox
\* and the layout rectangle share area, and the rectangle it is given is
\* their intersection, point for point on each axis: inside the layout, of
\* positive width and height; otherwise the capture ends with an error and
\* grim is not invoked.  For bbox (-50, 0, 1200x800) and layout
\* (0, 0, 1920x1080) the geometry string is "0,0 1150x800".
C27_GrimRectIsIntersection ==
    (call.op = "capture_window" /\ call.layout # NoLayout) =>
        LET xs == Span(call.bbox.left, call.bbox.width)
                      \cap Span(call.layout.left, call.layout.width)
            ys == Span(call.bbox.top, call.bbox.height)
                      \cap Span(call.layout.top, call.layout.height)
        IN  /\ call.grim_invoked <=> (xs # {} /\ ys # {})
            /\ call.grim_invoked =>
                  /\ Span(call.rect.left, call.rect.width) = xs
                  /\ Span(call.rect.top, call.rect.height) = ys
                  /\ call.rect.width > 0 /\ call.rect.height > 0
                  /\ call.geometry = GrimGeometry(call.rect)
            /\ ~call.grim_invoked =>
                  (call.outcome = "ValueError" /\ call.geometry = "")
            /\ (call.bbox = Box(-50, 0, 1200, 800) /\ call.layout = Box(0, 0, 1920, 1080))
                  => call.geometry = "0,0 1150x800"

\* C27 witness: the capture of bbox (-50, 0, 1200x800) on the single output
\* (0, 0, 1920x1080) has invoked grim with a clamped rectangle.
C27_Witness ==
    /\ call.op = "capture_window"
    /\ call.bbox = Box(-50, 0, 1200, 800) /\ call.layout = Box(0, 0, 1920, 1080)
    /\ call.grim_invoked /\ call.rect # call.bbox

\* The call recorded is one of a window info provider.
ProviderCalled == call.op = "get_active_window_and_monitor_boxes"
\* The provider of the call found its compositor.
Supported ==
    /\ call.provider # "UnsupportedWayland"
    /\ call.provider \in {"Hyprland", "Sway"} => call.tool_found
\* The attempts of the call that met a transient failure.
Transient(i) == call.meets[i] \in {"missing", "vanished"}

\* C28: a provider call makes at most `retries` attempts; it returns the
\* window of the first attempt that succeeds when the attempts before it
\* failed transiently; after `retries` transient failures it returns no
\* window and an empty monitor list and raises nothing; an unsupported
\* compositor raises NotImplementedError, which get_active_window_if_relevant
\* turns into None.
C28_BoundedRetries ==
    ProviderCalled =>
        /\ call.attempts <= call.retries
        /\ Supported =>
              /\ \A i \in 1..call.retries :
                    (call.meets[i] = "ok" /\ \A j \in 1..(i - 1) : Transient(j))
                        => (call.result = "window" /\ call.from = i /\ call.attempts = i)
              /\ (\A i \in 1..call.retries : Transient(i))
                    => /\ call.result = "None" /\ call.boxes = "empty"
                       /\ call.attempts = call.retries
                       /\ call.then = "None"
        /\ ~Supported =>
              /\ call.result = "NotImplementedError" /\ call.attempts = 0
              /\ call.then = "None"

\* C28 witness: a supported provider whose three attempts all failed, one of
\* them on a vanished window, has returned no window.
C28_Witness ==
    /\ ProviderCalled /\ Supported
    /\ call.retries = 3 /\ call.attempts = 3
    /\ \E i \in 1..3 : call.meets[i] = "vanished"
    /\ call.result = "None"

\* C29 as stated: every DBus connection the WaylandIdleDetector opened during
\* a scope has been disconnected when the scope has exited.
C29_AllConnectionsClosed ==
    (call.op = "WaylandIdleDetector" /\ call.phase = "exited")
        => call.opened \subseteq call.disconnected

\* C30 as stated: while a synchronous call of the scheduler (the window
\* lookup, the grim capture) is in flight, the Dispatcher can still take a
\* step: with an event queued and the Dispatcher waiting in get(), its get
\* is enabled.
C30_DispatcherRunsDuringBlockingCall ==
    (call.op = "blocking" /\ worker = "running" /\ s_pc = "get" /\ queue # <<>>)
        => ENABLED SenderGet

\* C31 as stated: every subprocess of the capture pipeline is bounded by a
\* timeout, so a synchronous call of the scheduler that is in flight always
\* returns, even when the subprocess never exits by itself.
C31_BlockingCallReturns == (call.op = "blocking") ~> (call.op = "returned")

\* The call recorded is one of detect_display_server.
Detected == call.op = "detect_display_server"

\* C32 as stated: on Linux the result is Wayland when XDG_SESSION_TYPE is
\* wayland or WAYLAND_DISPLAY is set, else X11 when DISPLAY is set, else
\* Unknown; Windows gives Win32 and macOS gives Cocoa.
C32_ByVariablesSet ==
    Detected =>
        call.result =
            CASE call.platform = "windows" -> "win32"
              [] call.platform = "macos" -> "cocoa"
              [] call.platform = "linux" ->
                    IF call.XDG_SESSION_TYPE = "wayland" \/ call.WAYLAND_DISPLAY # Unset
                    THEN "wayland"
                    ELSE IF call.DISPLAY # Unset THEN "x11" ELSE "unknown"
              [] OTHER -> "unknown"

\* C32 (amended): on Linux the result is Wayland when XDG_SESSION_TYPE equals
\* "wayland" in any letter case or WAYLAND_DISPLAY holds a non-empty value
\* (also when DISPLAY does too), else X11 when DISPLAY holds a non-empty
\* value, else Unknown; Windows gives Win32, macOS gives Cocoa, any other
\* platform Unknown.
C32_ByNonEmptyValues ==
    Detected =>
        call.result =
            CASE call.platform = "windows" -> "win32"
              [] call.platform = "macos" -> "cocoa"
              [] call.platform = "linux" ->
                    IF call.XDG_SESSION_TYPE \in {"wayland", "Wayland"}
                       \/ call.WAYLAND_DISPLAY \notin {Unset, ""}
                    THEN "wayland"
                    ELSE IF call.DISPLAY \notin {Unset, ""} THEN "x11" ELSE "unknown"
              [] OTHER -> "unknown"

\* C32 witness: Linux with WAYLAND_DISPLAY set to the empty string and an X
\* display present has been classified as X11.
C32_Witness ==
    /\ Detected /\ call.platform = "linux"
    /\ call.WAYLAND_DISPLAY = "" /\ call.DISPLAY = ":0"
    /\ call.result = "x11"

\* A get_idle_seconds call of the detector has returned.
IdleAnswered == call.op = "WaylandIdleDetector" /\ call.tried # <<>>
\* The position of a probe in the order Mutter, ScreenSaver, portal monitor,
\* logind monitor, loginctl, one-shot logind lookup.
ProbeIndex(n) == CHOOSE i \in 1..Len(ProbeOrder) : ProbeOrder[i] = n

C34_FailedProbeSkipped ==
    /\ [](call.op = "WaylandIdleDetector" =>
            /\ call.portal_failed => (~call.portal_bus /\ ~call.portal_handler)
            /\ call.logind_failed => (~call.logind_bus /\ ~call.logind_handler))
    /\ [][call.op = "WaylandIdleDetector" =>
            /\ call.portal_failed =>
                  (call'.portal_failed /\ call'.portal_connects = call.portal_connects)
            /\ call.logind_failed =>
                  (call'.logind_failed /\ call'.logind_connects = call.logind_connects)]_vars

\* C34 witness: after the portal probe failed on CreateMonitor, a later call
\* has run all six probes and the portal probe has still connected once.
C34_Witness ==
    /\ IdleAnswered /\ call.phase = "entered"
    /\ call.portal_failed /\ call.portal_connects = 1
    /\ call.logind_bus
    /\ call.tried = ProbeOrder

\* C35 as stated: two windows get the same fingerprint exactly when they have
\* the same app_name and the same title.
C35_HashSeparatesWindows ==
    call.op = "window_to_hash" =>
        ((call.hash_a = call.hash_b)
            <=> (call.a.app_name = call.b.app_name /\ call.a.title = call.b.title))

\* C36: a step that writes window_hash_last_seen writes the hash of the shot
\* just enqueued.  A key already present keeps its position, every other
\* entry stays, and nothing is evicted; a new key goes to the end, and when
\* that makes 1001 entries exactly the entry at the front, the earliest
\* inserted, is evicted; the entry just written is still there.
C36_FifoEviction ==
    [][window_hash_last_seen' # window_hash_last_seen =>
         LET old == window_hash_last_seen
             new == window_hash_last_seen'
             h == log'[Len(log')].hash
             written == [hash |-> h, ts |-> now]
         IN  /\ Len(log') = Len(log) + 1
             /\ IF HasKey(old, h)
                THEN /\ Len(new) = Len(old)
                     /\ \A i \in 1..Len(old) :
                            new[i] = IF old[i].hash = h THEN written ELSE old[i]
                ELSE IF Len(old) < LruCap
                THEN new = Append(old, written)
                ELSE new = Append(Tail(old), written) /\ Len(new) = LruCap]_vars

\* C36 witness: in a full map the front key was written again and kept its
\* place; the next new key then evicted it, and the new key is at the end.
C36_Witness ==
    /\ Len(log) >= 2
    /\ log[1].hash = LruHash(1)
    /\ Len(window_hash_last_seen) = LruCap
    /\ window_hash_last_seen[1].hash = LruHash(2)
    /\ window_hash_last_seen[LruCap].hash = log[Len(log)].hash
    /\ ~HasKey(window_hash_last_seen, LruHash(1))

\* ---------------------------------------------------------------- C37
\* C37: scheduler state never survives a pairing loss.  Every step that starts
\* a session (session counts them, and numbers the idle detector and the
\* screenshotter created for it) is taken with no scope of an earlier session
\* still entered, and leaves is_afk false, window_hash_last_seen holding only
\* the bootstrap window at the session start, and last_shot_ts and
\* last_change_ts equal to the session start; the only scope it may enter is
\* that of the screenshotter just created.
C37_SessionStartsFresh ==
    [][session' # session =>
         /\ session' = session + 1
         /\ scopes = <<>>
         /\ scopes' \in {<<>>, <<"screenshotter">>}
         /\ released' = <<>>
         /\ is_afk' = FALSE
         /\ \E w \in Windows :
              /\ prev_hash' = window_to_hash(w)
              /\ window_hash_last_seen' = <<[hash |-> window_to_hash(w), ts |-> clock']>>
         /\ last_shot_ts' = clock'
         /\ last_change_ts' = clock']_vars

\* A second session has just started, after a first one that had gone AFK.
C37_Witness ==
    /\ session >= 2 /\ pc = "boot"
    /\ \E i \in 1..Len(log) : log[i].kind = "AfkStart" /\ log[i].session = 1
    /\ is_afk = FALSE
    /\ Len(window_hash_last_seen) = 1
    /\ last_shot_ts = clock

\* ---------------------------------------------------------------- C38
\* The scheduler and its environment, where time goes on and every step of the
\* scheduler that can be taken is taken: the event loop resumes a task whose
\* sleep is over or whose awaited call returned.
SpecAfk ==
    /\ Init /\ [][NextSched]_vars
    /\ WF_vars(Tick(MaxClock))
    /\ WF_vars(SchedGate) /\ WF_vars(SchedFindFirst) /\ WF_vars(SchedBoot)
    /\ WF_vars(SchedLoopTop) /\ WF_vars(SchedIdle) /\ WF_vars(SchedCapture)
    /\ WF_vars(SchedWake)

AfkStartEnqueued == \E i \in 1..Len(log) : log[i].kind = "AfkStart"

\* No tick has read an idle time at or below afk_timeout, and no read failed:
\* once a tick is past its reading, afk_obs counts it.
IdleStaysAbove ==
    (pc = "capture" \/ (pc = "sleep" /\ resume = "loop")) => afk_obs > 0

CaptureFails == pc = "capture" /\ pc' = "sleep" /\ swallowed' = "capture"

\* The tick under way is the one that follows a tick whose capture failed.
AfterFailedCapture == pc = "idle" /\ swallowed = "capture"

\* A failed capture leaves last_shot_ts and window_hash_last_seen as they were.
FailedShotLeavesCooldowns ==
    [][CaptureFails =>
         /\ last_shot_ts' = last_shot_ts
         /\ window_hash_last_seen' = window_hash_last_seen
         /\ log' = log]_vars

\* On the tick after a failed capture the rules decide to shoot again, if the
\* user is not AFK and the window that was to be captured is still in front.
FailedShotRetried ==
    AfterFailedCapture =>
        \A r \in Windows :
            window_to_hash(r) = prev_hash => Decision(afk_timeout, r) = "shoot"

\* C39: a tick of the inner loop whose capture or enqueue fails leaves
\* last_shot_ts and window_hash_last_seen unchanged and enqueues nothing, so
\* no cooldown is started by it, and the capture is tried again on the next
\* tick.
C39_FailedShotStartsNoCooldown ==
    FailedShotLeavesCooldowns /\ []FailedShotRetried

\* ---------------------------------------------------------------- C40
\* The step is a POST of the event in hand (sender.py:79-88).
Posts == s_pc = "send" /\ s_pc' = "get" /\ last_handled'.posts = 1

\* C40: an event is only ever POSTed with the backend URL and the device token
\* of the pairing under which the scheduler put it on the queue; an event
\* queued under one pairing is never sent to the backend of a later one.
C40_PostedToCapturePairing ==
    [][Posts => /\ s_url = log[s_event].backend
                /\ s_headers = log[s_event].token]_vars

====
